---- MODULE Spec2Model ----
(***************************************************************************)
(* Scheduled-publication pipeline of the post bot: the Draft Store rows,   *)
(* the APScheduler job table, the in-flight handler coroutines             *)
(* (publish_post_now, unschedule_post, delete_post) and timer callbacks    *)
(* (publish_scheduled_post), the channel, and process stop/start.          *)
(*                                                                         *)
(* Optional values (Python None / a value) are sequences: << >> is None    *)
(* and <<v>> is the value v.                                               *)
(***************************************************************************)
EXTENDS Integers, Sequences, FiniteSets, TLC

\* ---------------------------------------------------------------- bounds
MaxPosts == 2
MaxTasks == 2
MaxTicks == 3
MaxSchedTicks == 1
MaxSends == 2
MaxRacing == 1
MaxMedia == 3
MaxButtons == 2
MaxAlbum == 4
MaxRows == 2
MaxLines == 2
MaxParts == 3
MaxPending == 2
MaxCalls == 3

\* ------------------------------------------------------------- constants
\* job_defaults of the AsyncIOScheduler (seconds)
MisfireGraceTime == 60 * 5
MaxInstances == 1

\* The clock advances in steps of one grace period.
ClockStep == MisfireGraceTime
MaxTime == MaxTicks * ClockStep

Posts == 1..MaxPosts
Slots == 1..MaxTasks
\* the posts whose handlers run concurrently
RacingPosts == 1..MaxRacing
ScheduleTimes == {k * ClockStep : k \in 1..MaxSchedTicks}

None == << >>
Some(v) == <<v>>
IsSome(o) == o # << >>
Get(o) == o[1]

\* PostStatus
DRAFT == "draft"
SCHEDULED == "scheduled"
PUBLISHED == "published"
FAILED == "failed"

VARIABLES
  now,            \* wall clock, seconds
  running,        \* the process is up and the scheduler global is started
  store,          \* draft_posts table: post id -> Optional row
  jobs,           \* APScheduler job table: job id -> Optional run_date
  timer,          \* per job id: "idle" | "delivered" (fire signal delivered)
                  \*   | "executed" (its callback has called publish_post)
  tasks,          \* in-flight coroutines, one per slot
  channel,        \* messages of each post delivered to the channel, ever
  sent_this_run,  \* messages of each post delivered since the process started
  \* renderers (publish_post, send_post_preview, send_preview)
  content,        \* the post content handed to the renderers
  rendered,       \* renderer -> Optional sequence of the transport calls it made
  \* MediaGroupManager
  collectors,     \* _collectors: group id -> Optional list of messages
  locks,          \* _locks: the set of group ids that have a lock
  calls,          \* process_message calls: message id -> [pc, result]
  sleepers,       \* the calls in asyncio.sleep, in wake-up order
  \* wizard (FSMContext of one author)
  fsm_state,      \* Optional PostWizard state
  fsm_data,       \* the accumulated data
  fsm_pending,    \* handlers suspended in a transport call: what each does next
  handled,        \* the handler that took the last step, the state it was
                  \*   dispatched in, and whether it is suspended or done
  \* parse_button_text
  button_text,    \* the lines of the input text
  parsed_buttons, \* Optional list of (text, url) it returned
  \* draft_media, draft_buttons and the last repository call
  media_rows,     \* set of draft_media rows
  button_rows,    \* set of draft_buttons rows
  returned,       \* what the last repository call returned or raised
  \* parse_datetime
  clock,          \* datetime.now(tz) seen by parse_datetime
  dt_text,        \* the input text
  dt_result,      \* Optional (datetime, error)
  \* direct calls of the scheduler service
  job_call,       \* the last call of schedule_post / cancel_scheduled_post
                  \*   and what it returned or raised
  \* editing a published post (edit_published router, one author)
  edit_fsm,       \* FSMContext: Optional EditPost state, edit_button_id
  edit_post,      \* Optional stored post being edited, with its buttons
  edit_message,   \* Optional message of that post in the channel
  edit_handled    \* the last handler that took an edit, its input and outcome

\* the scheduled-publication pipeline
pipeline == <<now, running, store, jobs, timer, tasks, channel, sent_this_run>>
render_vars == <<content, rendered>>
album_vars == <<collectors, locks, calls, sleepers>>
wizard_vars == <<fsm_state, fsm_data, fsm_pending, handled>>
parser_vars == <<button_text, parsed_buttons>>
rows_vars == <<media_rows, button_rows, returned>>
resolver_vars == <<clock, dt_text, dt_result>>
service_vars == <<job_call>>
edit_vars == <<edit_fsm, edit_post, edit_message, edit_handled>>
\* everything outside the pipeline
others ==
  <<render_vars, album_vars, wizard_vars, parser_vars, rows_vars, resolver_vars, service_vars, edit_vars>>

vars == <<pipeline, others>>

\* ------------------------------------------------------------ scheduler
\* job_id = f"publish_post_{post_id}"
JobId(post_id) == <<"publish_post", post_id>>
JobIds == {JobId(p) : p \in Posts}
PostOf(job_id) == job_id[2]

\* DraftPost row as created by DraftPostRepository.create
DraftPost == [status |-> DRAFT, scheduled_at |-> None, scheduler_job_id |-> None,
              published_message_id |-> None]

\* a row as the scheduling step leaves it
ScheduledPost(post_id, scheduled_at) ==
  [status |-> SCHEDULED, scheduled_at |-> Some(scheduled_at),
   scheduler_job_id |-> Some(JobId(post_id)), published_message_id |-> None]

\* What the process may find in the store when it first starts: drafts, and
\* posts scheduled by an earlier run.
InitialStores ==
  {[p \in Posts |-> IF IsSome(f[p]) THEN Some(ScheduledPost(p, Get(f[p])))
                    ELSE Some(DraftPost)] :
     f \in {g \in [Posts -> {None} \cup {Some(t) : t \in ScheduleTimes}] :
              \A p \in Posts \ RacingPosts : g[p] = None}}

\* ---------------------------------------------------------------- repo
get_by_id(s, post_id) == s[post_id]

get_scheduled(s) == {p \in Posts : IsSome(s[p]) /\ Get(s[p]).status = SCHEDULED}

\* UPDATE draft_posts SET <values> WHERE id = post_id: no row, no effect
update(s, post_id, values) ==
  IF IsSome(s[post_id])
  THEN [s EXCEPT ![post_id] =
          Some([f \in DOMAIN Get(@) |->
                  IF f \in DOMAIN values THEN values[f] ELSE Get(@)[f]])]
  ELSE s

delete(s, post_id) == [s EXCEPT ![post_id] = None]

mark_published(s, post_id, message_id) ==
  update(s, post_id, [status |-> PUBLISHED, published_message_id |-> Some(message_id)])

mark_failed(s, post_id) == update(s, post_id, [status |-> FAILED])

\* ------------------------------------------------------ scheduler (cont.)
\* mutant: add_job without replace_existing, ConflictingIdError keeps the old job
add_job_conflict(j, job_id, run_date) ==
  IF IsSome(j[job_id]) THEN j ELSE [j EXCEPT ![job_id] = Some(run_date)]

\* scheduler.add_job(..., id=job_id, replace_existing=True)
add_job(j, job_id, run_date) == [j EXCEPT ![job_id] = Some(run_date)]

\* scheduler.remove_job(job_id): JobLookupError when the job is not there
remove_job(j, job_id) == [j EXCEPT ![job_id] = None]

\* mutant: the job is not removed
cancel_scheduled_post_keeps_job(up, j, job_id) == [jobs |-> j, ok |-> FALSE]

\* mutant: True is returned whatever remove_job did
cancel_scheduled_post_always_true(up, j, job_id) ==
  [jobs |-> IF up THEN remove_job(j, job_id) ELSE j, ok |-> TRUE]

\* cancel_scheduled_post: [jobs, ok]
cancel_scheduled_post(up, j, job_id) ==
  IF ~up THEN [jobs |-> j, ok |-> FALSE]
  ELSE IF IsSome(j[job_id]) THEN [jobs |-> remove_job(j, job_id), ok |-> TRUE]
  ELSE [jobs |-> j, ok |-> FALSE]

\* schedule_post: [jobs, job_id]
schedule_post(j, post_id, scheduled_at) ==
  [jobs |-> add_job(j, JobId(post_id), scheduled_at), job_id |-> JobId(post_id)]

NoJobs == [id \in JobIds |-> None]

\* mutant: only the posts already due are restored (get_due_for_publishing)
restore_due_jobs(s) ==
  [id \in JobIds |->
     IF /\ PostOf(id) \in get_scheduled(s)
        /\ IsSome(Get(s[PostOf(id)]).scheduled_at)
        /\ Get(Get(s[PostOf(id)]).scheduled_at) <= now
     THEN Some(Get(Get(s[PostOf(id)]).scheduled_at))
     ELSE None]

\* restore_scheduled_jobs into the fresh scheduler
restore_scheduled_jobs(s) ==
  [id \in JobIds |->
     IF PostOf(id) \in get_scheduled(s) /\ IsSome(Get(s[PostOf(id)]).scheduled_at)
     THEN Some(Get(Get(s[PostOf(id)]).scheduled_at))
     ELSE None]

\* ----------------------------------------------------------- publishing
\* mutant: no except clause, the transport's exception leaves publish_post
publish_post_propagates(sent_ok, message_id) ==
  [raised |-> ~sent_ok, message_id |-> IF sent_ok THEN Some(message_id) ELSE None]

\* publish_post: the transport call either returns a message or raises; the
\* except clause logs a raise and returns None, so nothing propagates.
publish_post(sent_ok, message_id) ==
  [raised |-> FALSE, message_id |-> IF sent_ok THEN Some(message_id) ELSE None]

\* ----------------------------------------------------------------- tasks
Idle == [kind |-> "idle", post_id |-> 0, pc |-> "", post |-> None, message_id |-> None]

FreeSlots == {k \in Slots : tasks[k] = Idle}
InFlight == {k \in Slots : tasks[k] # Idle}
\* at most cap coroutines are in flight at once
CanSpawn(cap) == Cardinality(InFlight) < cap /\ FreeSlots # {}
NewSlot == CHOOSE k \in FreeSlots : \A m \in FreeSlots : k <= m

Spawn(kind, post_id) ==
  [tasks EXCEPT ![NewSlot] =
     [kind |-> kind, post_id |-> post_id, pc |-> "read", post |-> None, message_id |-> None]]

\* executor._instances[job.id]
Instances(job_id) ==
  Cardinality({k \in Slots : tasks[k].kind = "publish_scheduled_post"
                             /\ tasks[k].post_id = PostOf(job_id)})

\* ------------------------------------------- the other components at rest
\* the album sizes, 1..MaxAlbum messages with message_id 1..MaxAlbum
Messages == 1..MaxAlbum

NoContent == [text |-> "", entities |-> None, media |-> << >>, buttons |-> << >>]
Renderers == {"publish_post", "send_post_preview", "send_preview"}
NoCall == [pc |-> "new", result |-> None]
\* await state.clear(): no state, no data
NoData == [text |-> None, text_entities |-> None, media_type |-> None,
           media_file_ids |-> << >>, buttons |-> << >>, scheduled_at |-> None]
Midnight == [day |-> 0, minute |-> 0, second |-> 0]

RenderIdle == content = NoContent /\ rendered = [r \in Renderers |-> None]
AlbumIdle ==
  /\ collectors = None /\ locks = FALSE
  /\ calls = [m \in Messages |-> NoCall] /\ sleepers = << >>
NoUpdate == [name |-> "", from |-> None, step |-> "done"]
WizardIdle ==
  fsm_state = None /\ fsm_data = NoData /\ fsm_pending = << >> /\ handled = NoUpdate
ParserIdle == button_text = << >> /\ parsed_buttons = None
RowsIdle == media_rows = {} /\ button_rows = {} /\ returned = None
ResolverIdle == clock = Midnight /\ dt_text = None /\ dt_result = None
ServiceIdle == job_call = None
NoEdit == [seq |-> 0, name |-> "", text |-> None, lines |-> << >>, button_id |-> 0,
           result |-> ""]
EditIdle ==
  /\ edit_fsm = [state |-> None, edit_button_id |-> None]
  /\ edit_post = None /\ edit_message = None /\ edit_handled = NoEdit

\* ------------------------------------------------------------------ Init
Init ==
  /\ RenderIdle /\ AlbumIdle /\ WizardIdle /\ ParserIdle /\ RowsIdle /\ ResolverIdle /\ ServiceIdle /\ EditIdle
  /\ now = 0
  /\ running = FALSE
  /\ store \in InitialStores
  /\ jobs = NoJobs
  /\ timer = [id \in JobIds |-> "idle"]
  /\ tasks = [k \in Slots |-> Idle]
  /\ channel = [p \in Posts |-> 0]
  /\ sent_this_run = [p \in Posts |-> 0]

\* ------------------------------------------------------- process lifetime
\* main / on_startup -> start_scheduler: a fresh scheduler, jobs restored from
\* the store, then scheduler.start()
start_scheduler ==
  /\ ~running
  /\ running' = TRUE
  /\ jobs' = restore_scheduled_jobs(store)
  /\ UNCHANGED <<now, store, timer, tasks, channel, sent_this_run>>
  /\ UNCHANGED others

\* The process stops (crash or shutdown): the scheduler global, its job table
\* and every suspended coroutine are lost; the store and the channel stay.
Stop ==
  /\ running
  /\ running' = FALSE
  /\ jobs' = NoJobs
  /\ timer' = [id \in JobIds |-> "idle"]
  /\ tasks' = [k \in Slots |-> Idle]
  /\ sent_this_run' = [p \in Posts |-> 0]
  /\ UNCHANGED <<now, store, channel>>
  /\ UNCHANGED others

DueJobs == {id \in JobIds : IsSome(jobs[id]) /\ Get(jobs[id]) <= now}

\* Time passes. A started scheduler wakes up at the run_date of its next job:
\* the clock does not pass a due job of a running scheduler.
Tick ==
  /\ now + ClockStep <= MaxTime
  /\ ~(running /\ DueJobs # {})
  /\ now' = now + ClockStep
  /\ UNCHANGED <<running, store, jobs, timer, tasks, channel, sent_this_run>>
  /\ UNCHANGED others

\* ------------------------------------------------------------- scheduling
\* Confirmation step of the wizard with a future instant: schedule_post
\* registers the job and the returned handle is persisted onto the post.
Schedule(post_id, scheduled_at) ==
  /\ running
  /\ IsSome(store[post_id]) /\ Get(store[post_id]).status = DRAFT
  /\ LET r == schedule_post(jobs, post_id, scheduled_at) IN
       /\ jobs' = r.jobs
       /\ store' = update(store, post_id,
                     [status |-> SCHEDULED, scheduled_at |-> Some(scheduled_at),
                      scheduler_job_id |-> Some(r.job_id)])
       /\ timer' = [timer EXCEPT ![r.job_id] = "idle"]
  /\ UNCHANGED <<now, running, tasks, channel, sent_this_run>>
  /\ UNCHANGED others

\* mutant: no grace, every late run is dropped
Misfired_no_grace(run_date) == now - run_date > 0

\* a run later than misfire_grace_time is a misfire
Misfired(run_date) == now - run_date > MisfireGraceTime

\* A due job is processed: the DateTrigger has no next fire time, so the job
\* leaves the table; the run is dropped when max_instances of this job id are
\* running or when it is later than misfire_grace_time, else the callback
\* publish_scheduled_post(post_id) starts.
Fire(job_id, cap) ==
  /\ running
  /\ job_id \in DueJobs
  /\ jobs' = remove_job(jobs, job_id)
  /\ timer' = [timer EXCEPT ![job_id] = "delivered"]
  /\ \/ /\ Instances(job_id) >= MaxInstances
        /\ UNCHANGED tasks
     \/ /\ Instances(job_id) < MaxInstances
        /\ Misfired(Get(jobs[job_id]))
        /\ UNCHANGED tasks
     \/ /\ Instances(job_id) < MaxInstances
        /\ ~Misfired(Get(jobs[job_id]))
        /\ CanSpawn(cap)
        /\ tasks' = Spawn("publish_scheduled_post", PostOf(job_id))
  /\ UNCHANGED <<now, running, store, channel, sent_this_run>>
  /\ UNCHANGED others

\* The timer mechanism delivers the fire signal of an already fired job id
\* again; the executor's max_instances gate still applies.
DuplicateFire(job_id, cap) ==
  /\ running
  /\ timer[job_id] # "idle"
  /\ Instances(job_id) < MaxInstances
  /\ CanSpawn(cap)
  /\ tasks' = Spawn("publish_scheduled_post", PostOf(job_id))
  /\ UNCHANGED <<now, running, store, jobs, timer, channel, sent_this_run>>
  /\ UNCHANGED others

\* ------------------------------------------------------ transport / steps
Finish(k) == [tasks EXCEPT ![k] = Idle]

\* message_id = await publish_post(post): bot.send_* delivers a message to the
\* channel and returns its id, or raises. An exception leaving publish_post
\* would leave the handler too (get_session rolls back).
Send(k, sent_ok) ==
  LET p == tasks[k].post_id
      r == publish_post(sent_ok, channel[p] + 1)
  IN
  /\ sent_ok => channel[p] < MaxSends
  /\ channel' = IF sent_ok THEN [channel EXCEPT ![p] = @ + 1] ELSE channel
  /\ sent_this_run' = IF sent_ok THEN [sent_this_run EXCEPT ![p] = @ + 1] ELSE sent_this_run
  /\ tasks' = IF r.raised THEN Finish(k)
              ELSE [tasks EXCEPT ![k].pc = "mark", ![k].message_id = r.message_id]

\* if message_id: mark_published(...) else: mark_failed(...); commit
Mark(k) ==
  /\ tasks[k].pc = "mark"
  /\ store' = IF IsSome(tasks[k].message_id)
              THEN mark_published(store, tasks[k].post_id, Get(tasks[k].message_id))
              ELSE mark_failed(store, tasks[k].post_id)
  /\ tasks' = Finish(k)
  /\ UNCHANGED <<now, running, jobs, timer, channel, sent_this_run>>
  /\ UNCHANGED others

\* ------------------------------------------------ publish_scheduled_post
\* mutant: the status of the post is not checked
publish_scheduled_post_read_any_status(k) ==
  /\ tasks[k].kind = "publish_scheduled_post"
  /\ tasks[k].pc = "read"
  /\ LET post == get_by_id(store, tasks[k].post_id) IN
       tasks' = IF IsSome(post)
                THEN [tasks EXCEPT ![k].pc = "send", ![k].post = post]
                ELSE Finish(k)
  /\ UNCHANGED <<now, running, store, jobs, timer, channel, sent_this_run>>
  /\ UNCHANGED others

\* mutant: a post that is not scheduled is marked failed
publish_scheduled_post_read_marks_failed(k) ==
  /\ tasks[k].kind = "publish_scheduled_post"
  /\ tasks[k].pc = "read"
  /\ LET post == get_by_id(store, tasks[k].post_id) IN
       /\ tasks' = IF IsSome(post) /\ Get(post).status = SCHEDULED
                   THEN [tasks EXCEPT ![k].pc = "send", ![k].post = post]
                   ELSE Finish(k)
       /\ store' = IF IsSome(post) /\ Get(post).status # SCHEDULED
                   THEN mark_failed(store, tasks[k].post_id) ELSE store
  /\ UNCHANGED <<now, running, jobs, timer, channel, sent_this_run>>
  /\ UNCHANGED others

publish_scheduled_post_read(k) ==
  /\ tasks[k].kind = "publish_scheduled_post"
  /\ tasks[k].pc = "read"
  /\ LET post == get_by_id(store, tasks[k].post_id) IN
       tasks' = IF IsSome(post) /\ Get(post).status = SCHEDULED
                THEN [tasks EXCEPT ![k].pc = "send", ![k].post = post]
                ELSE Finish(k)
  /\ UNCHANGED <<now, running, store, jobs, timer, channel, sent_this_run>>
  /\ UNCHANGED others

publish_scheduled_post_send(k) ==
  /\ tasks[k].kind = "publish_scheduled_post"
  /\ tasks[k].pc = "send"
  /\ \E sent_ok \in BOOLEAN : Send(k, sent_ok)
  /\ timer' = [timer EXCEPT ![JobId(tasks[k].post_id)] = "executed"]
  /\ UNCHANGED <<now, running, store, jobs>>
  /\ UNCHANGED others

publish_scheduled_post_mark(k) ==
  /\ tasks[k].kind = "publish_scheduled_post"
  /\ Mark(k)

\* ------------------------------------------------------ publish_post_now
publish_post_now_read(post_id, cap) ==
  /\ running
  /\ CanSpawn(cap)
  /\ LET post == get_by_id(store, post_id) IN
       /\ IsSome(post)
       /\ Get(post).status # PUBLISHED
       /\ tasks' = [Spawn("publish_post_now", post_id) EXCEPT
                      ![NewSlot].pc = "send", ![NewSlot].post = post]
  /\ UNCHANGED <<now, running, store, jobs, timer, channel, sent_this_run>>
  /\ UNCHANGED others

publish_post_now_send(k) ==
  /\ tasks[k].kind = "publish_post_now"
  /\ tasks[k].pc = "send"
  /\ LET job == Get(tasks[k].post).scheduler_job_id
         c == IF IsSome(job) THEN cancel_scheduled_post(running, jobs, Get(job))
              ELSE [jobs |-> jobs, ok |-> FALSE]
     IN /\ jobs' = c.jobs
        /\ timer' = IF IsSome(job) THEN [timer EXCEPT ![Get(job)] = "idle"] ELSE timer
  /\ \E sent_ok \in BOOLEAN : Send(k, sent_ok)
  /\ UNCHANGED <<now, running, store>>
  /\ UNCHANGED others

publish_post_now_mark(k) ==
  /\ tasks[k].kind = "publish_post_now"
  /\ Mark(k)

\* ------------------------------------------------------- unschedule_post
unschedule_post_read(post_id, cap) ==
  /\ running
  /\ CanSpawn(cap)
  /\ LET post == get_by_id(store, post_id) IN
       /\ IsSome(post)
       /\ Get(post).status = SCHEDULED
       /\ tasks' = [Spawn("unschedule_post", post_id) EXCEPT
                      ![NewSlot].pc = "cancel", ![NewSlot].post = post]
  /\ UNCHANGED <<now, running, store, jobs, timer, channel, sent_this_run>>
  /\ UNCHANGED others

unschedule_post_cancel(k) ==
  /\ tasks[k].kind = "unschedule_post"
  /\ tasks[k].pc = "cancel"
  /\ LET job == Get(tasks[k].post).scheduler_job_id
         c == IF IsSome(job) THEN cancel_scheduled_post(running, jobs, Get(job))
              ELSE [jobs |-> jobs, ok |-> FALSE]
     IN /\ jobs' = c.jobs
        /\ timer' = IF IsSome(job) THEN [timer EXCEPT ![Get(job)] = "idle"] ELSE timer
  /\ tasks' = [tasks EXCEPT ![k].pc = "update"]
  /\ UNCHANGED <<now, running, store, channel, sent_this_run>>
  /\ UNCHANGED others

unschedule_post_update(k) ==
  /\ tasks[k].kind = "unschedule_post"
  /\ tasks[k].pc = "update"
  /\ store' = update(store, tasks[k].post_id,
                [status |-> DRAFT, scheduled_at |-> None, scheduler_job_id |-> None])
  /\ tasks' = Finish(k)
  /\ UNCHANGED <<now, running, jobs, timer, channel, sent_this_run>>
  /\ UNCHANGED others

\* ----------------------------------------------------------- delete_post
delete_post_read(post_id, cap) ==
  /\ running
  /\ CanSpawn(cap)
  /\ LET post == get_by_id(store, post_id) IN
       /\ IsSome(post)
       /\ Get(post).status # PUBLISHED
       /\ tasks' = [Spawn("delete_post", post_id) EXCEPT
                      ![NewSlot].pc = "delete", ![NewSlot].post = post]
  /\ UNCHANGED <<now, running, store, jobs, timer, channel, sent_this_run>>
  /\ UNCHANGED others

delete_post_delete(k) ==
  /\ tasks[k].kind = "delete_post"
  /\ tasks[k].pc = "delete"
  /\ store' = delete(store, tasks[k].post_id)
  /\ tasks' = Finish(k)
  /\ UNCHANGED <<now, running, jobs, timer, channel, sent_this_run>>
  /\ UNCHANGED others

\* ------------------------------------------------------------------ Next
\* The handlers and callbacks of the posts ps, at most cap of them in flight.
Step(cap, ps) ==
  \/ start_scheduler
  \/ Stop
  \/ Tick
  \/ \E p \in ps, t \in ScheduleTimes : Schedule(p, t)
  \/ \E p \in ps : Fire(JobId(p), cap)
  \/ \E p \in ps : publish_post_now_read(p, cap)
  \/ \E p \in ps : unschedule_post_read(p, cap)
  \/ \E p \in ps : delete_post_read(p, cap)
  \/ \E k \in Slots : publish_scheduled_post_read(k)
  \/ \E k \in Slots : publish_scheduled_post_send(k)
  \/ \E k \in Slots : publish_scheduled_post_mark(k)
  \/ \E k \in Slots : publish_post_now_send(k)
  \/ \E k \in Slots : publish_post_now_mark(k)
  \/ \E k \in Slots : unschedule_post_cancel(k)
  \/ \E k \in Slots : unschedule_post_update(k)
  \/ \E k \in Slots : delete_post_delete(k)

\* Handlers and callbacks of one post interleave at their suspension points.
Next == Step(MaxTasks, RacingPosts)

Spec == Init /\ [][Next]_vars

\* As Spec, with a timer mechanism that may deliver a fire signal again.
DupNext ==
  \/ Step(MaxTasks, RacingPosts)
  \/ \E p \in RacingPosts : DuplicateFire(JobId(p), MaxTasks)

DupSpec == Init /\ [][DupNext]_vars

\* One handler or callback at a time, each run to completion, over all posts.
NextSeq == Step(1, Posts)

SeqSpec == Init /\ [][NextSeq]_vars

\* The event loop resumes every suspended coroutine, the scheduler processes
\* every due job, and time passes.
TaskStep(k) ==
  \/ publish_scheduled_post_read(k)
  \/ publish_scheduled_post_send(k)
  \/ publish_scheduled_post_mark(k)
  \/ publish_post_now_send(k)
  \/ publish_post_now_mark(k)
  \/ unschedule_post_cancel(k)
  \/ unschedule_post_update(k)
  \/ delete_post_delete(k)

FairSpec ==
  /\ Init /\ [][Next]_vars
  /\ \A k \in Slots : WF_vars(TaskStep(k))
  /\ \A p \in RacingPosts : SF_vars(Fire(JobId(p), MaxTasks))
  /\ SF_vars(Tick)

\* ========================================================== properties
Exists(p) == IsSome(store[p])
Row(p) == Get(store[p])
StatusIs(p, st) == Exists(p) /\ Row(p).status = st
TasksOf(p) == {k \in Slots : tasks[k] # Idle /\ tasks[k].post_id = p}
Publishers == {"publish_post_now", "publish_scheduled_post"}

\* task k takes its send step (the process does not stop in this step)
SendStep(k) == tasks[k].pc = "send" /\ tasks'[k] # tasks[k] /\ running'
\* task k takes its last step
LastStep(k, pc) == tasks[k].pc = pc /\ tasks'[k] = Idle /\ running'

\* C1: for a single post and any interleaving of the timer callback and the
\* publish-now handler (possibly triggered more than once) within one run of
\* the process, the channel receives at most one successful send of the post.
C1_AtMostOneSendPerRun == \A p \in Posts : sent_this_run[p] <= 1

\* C2: a post that was delivered to the channel in an earlier run of the
\* process (the process stopped before mark_published was committed) is not
\* delivered again by the timer callback after the restart.
C2_NoRedeliveryAfterRestart ==
  [][\A k \in Slots :
       (/\ tasks[k].kind = "publish_scheduled_post"
        /\ SendStep(k)
        /\ channel'[tasks[k].post_id] > channel[tasks[k].post_id])
       => channel[tasks[k].post_id] = sent_this_run[tasks[k].post_id]]_vars

\* C3: when the fire signal of a job id is delivered more than once, also
\* while an earlier delivery is still running, publish_post is executed at
\* most once for it: no timer callback calls publish_post for a job id whose
\* callback has already called it.
C3_FireExecutesOnce ==
  [][\A k \in Slots :
       (tasks[k].kind = "publish_scheduled_post" /\ SendStep(k))
       => timer[JobId(tasks[k].post_id)] # "executed"]_vars

\* a duplicate delivery started a second callback after the first one had
\* executed publish_post
C3_Witness ==
  \E k \in Slots :
    /\ tasks[k].kind = "publish_scheduled_post"
    /\ tasks[k].pc = "read"
    /\ timer[JobId(tasks[k].post_id)] = "executed"
    /\ StatusIs(tasks[k].post_id, PUBLISHED)

C6_ScheduledHasTimer ==
  running =>
    \A p \in Posts :
      (StatusIs(p, SCHEDULED) /\ TasksOf(p) = {}) => IsSome(jobs[JobId(p)])

\* C7: every pending job publish_post_<id> refers to a stored post with status
\* scheduled whose scheduled_at is the job's run time.
C7_TimerHasScheduledPost ==
  \A p \in Posts :
    IsSome(jobs[JobId(p)]) =>
      StatusIs(p, SCHEDULED) /\ Row(p).scheduled_at = jobs[JobId(p)]

C10_PublishedIsFinal ==
  [][\A p \in Posts :
       (StatusIs(p, PUBLISHED) /\ IsSome(store'[p]))
       => Get(store'[p]).status = PUBLISHED]_vars

\* ============================================================ renderers
\* The pipeline at rest, for the specifications of the other components.
PipelineIdle ==
  /\ now = 0 /\ running = FALSE
  /\ jobs = NoJobs /\ timer = [id \in JobIds |-> "idle"]
  /\ tasks = [k \in Slots |-> Idle]
  /\ channel = [p \in Posts |-> 0] /\ sent_this_run = [p \in Posts |-> 0]

\* MediaType values the wizard accepts
MediaKinds == {"photo", "video", "document"}
\* only photos and videos go into an album
AlbumKinds == {"photo", "video"}
Texts == {"", "hello"}
ButtonPairs == {<<"Site", "https://a.example">>, <<"Chat", "https://t.me/b">>}
SeqsUpTo(S, n) == UNION {[1..k -> S] : k \in 0..n}

\* text, entities of the text, media kinds in order, (text, url) pairs in order;
\* a post has a text or a media item, and only a non-empty text has entities
Contents ==
  {[text |-> t, entities |-> e, media |-> m, buttons |-> b] :
     t \in Texts, e \in {None, Some(<<"bold">>)},
     m \in {x \in SeqsUpTo(MediaKinds, MaxMedia) :
              Len(x) >= 2 => \A i \in DOMAIN x : x[i] \in AlbumKinds},
     b \in SeqsUpTo(ButtonPairs, MaxButtons)}
  \ {c \in [text : {""}, entities : {None, Some(<<"bold">>)},
             media : SeqsUpTo(MediaKinds, MaxMedia),
             buttons : SeqsUpTo(ButtonPairs, MaxButtons)] :
       c.media = << >> \/ IsSome(c.entities)}

\* the set S of integers in ascending order
SortedSeq(S) ==
  CHOOSE f \in [1..Cardinality(S) -> S] :
    \A i, j \in 1..Cardinality(S) : i < j => f[i] < f[j]

\* The DraftPost with its media and buttons as create_post_with_relations
\* stores the content: media position = index, one button per row; the model
\* has no column for the entities.
StoredPost(c) ==
  [text |-> c.text,
   media |-> [i \in DOMAIN c.media |->
                [file_id |-> i, media_type |-> c.media[i], position |-> i - 1]],
   buttons |-> [i \in DOMAIN c.buttons |->
                  [text |-> c.buttons[i][1], url |-> c.buttons[i][2],
                   row |-> i - 1, position |-> 0]]]

\* The wizard's FSM data for the content: file ids and one media_type
WizardData(c) ==
  [text |-> c.text, text_entities |-> c.entities,
   media_file_ids |-> [i \in DOMAIN c.media |-> i],
   media_type |-> IF c.media = << >> THEN None
                  ELSE IF \E i \in DOMAIN c.media : c.media[i] = "video"
                       THEN Some("video") ELSE Some(c.media[1]),
   buttons |-> c.buttons]

InlineKeyboardButton(text, url) == [text |-> text, url |-> url]

\* build_keyboard: buttons of one row on one line, rows in row-number order
build_keyboard(buttons) ==
  IF buttons = << >> THEN None
  ELSE LET rows == SortedSeq({buttons[i].row : i \in DOMAIN buttons})
           line(r) == SelectSeq(buttons, LAMBDA b : b.row = r)
       IN Some([k \in DOMAIN rows |->
                  [j \in DOMAIN line(rows[k]) |->
                     InlineKeyboardButton(line(rows[k])[j].text, line(rows[k])[j].url)]])

\* send_post_preview: one button per keyboard line
wizard_keyboard_of(buttons) ==
  IF buttons = << >> THEN None
  ELSE Some([i \in DOMAIN buttons |->
               <<InlineKeyboardButton(buttons[i][1], buttons[i][2])>>])

\* a call of a bot.send_* method
Call(method, chat_id, text, entities, media, reply_markup) ==
  [method |-> method, chat_id |-> chat_id, text |-> text, entities |-> entities,
   media |-> media, reply_markup |-> reply_markup]

InputMedia(type, file_id, caption, caption_entities) ==
  [type |-> type, media |-> file_id, caption |-> caption,
   caption_entities |-> caption_entities]

\* get_input_media: the class of the item's media_type
get_input_media(media, caption) ==
  InputMedia(media.media_type, media.file_id, caption, None)

\* the delivery operation of a media kind
send_method(media_type) ==
  IF media_type \in {"photo", "video", "document", "audio", "animation"}
  THEN "send_" \o media_type ELSE "send_photo"

\* publish_post: the transport calls made for a stored post (the transport
\* accepting each of them)
publish_post_calls(chat_id, post) ==
  LET keyboard == build_keyboard(post.buttons) IN
  IF post.media = << >>
  THEN <<Call("send_message", chat_id, post.text, None, << >>, keyboard)>>
  ELSE IF Len(post.media) = 1
  THEN <<Call(send_method(post.media[1].media_type), chat_id, post.text, None,
              <<post.media[1].file_id>>, keyboard)>>
  ELSE <<Call("send_media_group", chat_id, "", None,
              [i \in DOMAIN post.media |->
                 get_input_media(post.media[i], IF i = 1 THEN Some(post.text) ELSE None)],
              None)>>

\* send_preview (services/preview.py) without prefix_text
send_preview_calls(chat_id, post) ==
  LET keyboard == build_keyboard(post.buttons) IN
  IF post.media = << >>
  THEN <<Call("send_message", chat_id, post.text, None, << >>, keyboard)>>
  ELSE IF Len(post.media) = 1
  THEN <<Call(send_method(post.media[1].media_type), chat_id, post.text, None,
              <<post.media[1].file_id>>, keyboard)>>
  ELSE <<Call("send_media_group", chat_id, "", None,
              [i \in DOMAIN post.media |->
                 get_input_media(post.media[i], IF i = 1 THEN Some(post.text) ELSE None)],
              None)>>
       \o (IF IsSome(keyboard)
           THEN <<Call("send_message", chat_id, "buttons will be under the post",
                       None, << >>, keyboard)>>
           ELSE << >>)

\* send_post_preview (routers/post_wizard.py)
send_post_preview_calls(chat_id, d) ==
  LET keyboard == wizard_keyboard_of(d.buttons)
      kind == IF IsSome(d.media_type) THEN Get(d.media_type) ELSE ""
  IN
  IF d.media_file_ids = << >>
  THEN IF d.text # ""
       THEN <<Call("send_message", chat_id, d.text, d.text_entities, << >>, keyboard)>>
       ELSE << >>
  ELSE IF Len(d.media_file_ids) = 1
  THEN <<Call(IF kind \in {"photo", "video", "document", "animation"}
              THEN "send_" \o kind ELSE "send_photo",
              chat_id, d.text, d.text_entities, <<d.media_file_ids[1]>>, keyboard)>>
  ELSE <<Call("send_media_group", chat_id, "", None,
              [i \in DOMAIN d.media_file_ids |->
                 InputMedia(IF kind = "video" THEN "video" ELSE "photo",
                            d.media_file_ids[i],
                            IF i = 1 THEN Some(d.text) ELSE None,
                            IF i = 1 THEN d.text_entities ELSE None)],
              None)>>
       \o (IF IsSome(keyboard)
           THEN <<Call("send_message", chat_id, "buttons will be attached to the post",
                       None, << >>, keyboard)>>
           ELSE << >>)

RenderFrame ==
  UNCHANGED <<pipeline, album_vars, wizard_vars, parser_vars, rows_vars, resolver_vars, service_vars, edit_vars>>

RenderInit ==
  /\ content \in Contents
  /\ rendered = [r \in Renderers |-> None]
  /\ PipelineIdle /\ store = [p \in Posts |-> None]
  /\ AlbumIdle /\ WizardIdle /\ ParserIdle /\ RowsIdle /\ ResolverIdle /\ ServiceIdle /\ EditIdle

\* publish_post(post) to settings.channel_id
RenderPublish ==
  /\ rendered["publish_post"] = None
  /\ rendered' = [rendered EXCEPT !["publish_post"] =
                    Some(publish_post_calls("channel", StoredPost(content)))]
  /\ UNCHANGED content
  /\ RenderFrame

\* the wizard's preview of the accumulated content, to the author's chat
RenderWizardPreview ==
  /\ rendered["send_post_preview"] = None
  /\ rendered' = [rendered EXCEPT !["send_post_preview"] =
                    Some(send_post_preview_calls("author", WizardData(content)))]
  /\ UNCHANGED content
  /\ RenderFrame

\* send_preview(chat_id, post)
RenderPreview ==
  /\ rendered["send_preview"] = None
  /\ rendered' = [rendered EXCEPT !["send_preview"] =
                    Some(send_preview_calls("author", StoredPost(content)))]
  /\ UNCHANGED content
  /\ RenderFrame

RenderNext == RenderPublish \/ RenderWizardPreview \/ RenderPreview

RenderSpec == RenderInit /\ [][RenderNext]_vars

\* a call without its destination
Undirected(c) == [f \in DOMAIN c \ {"chat_id"} |-> c[f]]
UndirectedCalls(cs) == [i \in DOMAIN cs |-> Undirected(cs[i])]

\* C11: publishing a post with two or more media items and a non-empty button
\* list makes exactly one grouped-delivery call followed by exactly one
\* keyboard-only message call to the same destination, and the group call
\* carries no keyboard.
C11_AlbumThenKeyboardMessage ==
  (/\ IsSome(rendered["publish_post"])
   /\ Len(content.media) >= 2
   /\ content.buttons # << >>)
  => LET cs == Get(rendered["publish_post"]) IN
       /\ Len(cs) = 2
       /\ cs[1].method = "send_media_group"
       /\ cs[1].reply_markup = None
       /\ cs[2].method = "send_message"
       /\ cs[2].media = << >>
       /\ cs[2].reply_markup = build_keyboard(StoredPost(content).buttons)
       /\ cs[2].chat_id = cs[1].chat_id

\* C12: for every content, the wizard preview (send_post_preview), the preview
\* service (send_preview) and the channel publication make the same sequence
\* of transport calls (text, entities, media order, keyboard), the destination
\* apart.
C12_PreviewEqualsPublication ==
  \A r \in {"send_post_preview", "send_preview"} :
    (IsSome(rendered[r]) /\ IsSome(rendered["publish_post"]))
    => UndirectedCalls(Get(rendered[r])) = UndirectedCalls(Get(rendered["publish_post"]))

\* ============================================================ MediaGroupManager
\* One media_group_id. collectors: the messages of the group's collector, or
\* None when the manager has none; locks: whether the manager has a lock for
\* the group; calls[m]: the process_message call for message m; sleepers: the
\* calls in asyncio.sleep, in the order their timers expire (all sleeps have
\* the same length, so the order of going to sleep).
AbsentCall == [pc |-> "absent", result |-> << >>]

AlbumFrame ==
  UNCHANGED <<pipeline, render_vars, wizard_vars, parser_vars, rows_vars, resolver_vars, service_vars, edit_vars>>

\* an album of n messages, none of them delivered yet
AlbumInit ==
  /\ \E n \in 1..MaxAlbum :
       calls = [m \in Messages |-> IF m <= n THEN NoCall ELSE AbsentCall]
  /\ collectors = None /\ locks = FALSE /\ sleepers = << >>
  /\ PipelineIdle /\ store = [p \in Posts |-> None]
  /\ RenderIdle /\ WizardIdle /\ ParserIdle /\ RowsIdle /\ ResolverIdle /\ ServiceIdle /\ EditIdle

\* MediaGroupCollector.get_media_items: the items ordered by message_id
get_media_items(messages) == SortedSeq(messages)

\* process_message up to its sleep: get or create the lock, get or create the
\* collector, add the message
process_message_add(m) ==
  /\ calls[m].pc = "new"
  /\ locks' = TRUE
  /\ collectors' = Some((IF IsSome(collectors) THEN Get(collectors) ELSE {}) \cup {m})
  /\ calls' = [calls EXCEPT ![m].pc = "sleeping"]
  /\ sleepers' = Append(sleepers, m)
  /\ AlbumFrame

\* process_message after its sleep: self._locks[group_id] raises KeyError when
\* the lock was deleted; without a collector the call returns None; otherwise
\* it pops the collector, deletes the lock and returns the items
process_message_wake(m) ==
  /\ sleepers # << >> /\ m = Head(sleepers)
  /\ sleepers' = Tail(sleepers)
  /\ IF ~locks
     THEN /\ calls' = [calls EXCEPT ![m].pc = "raised"]
          /\ UNCHANGED <<collectors, locks>>
     ELSE IF collectors = None
     THEN /\ calls' = [calls EXCEPT ![m].pc = "returned_none"]
          /\ UNCHANGED <<collectors, locks>>
     ELSE /\ calls' = [calls EXCEPT ![m] = [pc |-> "returned_list",
                                            result |-> get_media_items(Get(collectors))]]
          /\ collectors' = None
          /\ locks' = FALSE
  /\ AlbumFrame

AlbumNext == \E m \in Messages : process_message_add(m) \/ process_message_wake(m)

AlbumSpec == AlbumInit /\ [][AlbumNext]_vars

Album == {m \in Messages : calls[m].pc # "absent"}
AlbumDone == \A m \in Album : calls[m].pc \notin {"new", "sleeping"}
Finalizers == {m \in Album : calls[m].pc = "returned_list"}

\* C13: when the process_message calls for the N messages of one group have
\* all ended, whatever the order and timing of the arrivals, exactly one of
\* them returned a list, and that list has the N items in message_id order.
C13_OneFinalizerWithWholeAlbum ==
  AlbumDone =>
    /\ Cardinality(Finalizers) = 1
    /\ \A m \in Finalizers : calls[m].result = SortedSeq(Album)

\* ============================================================ parse_button_text
\* A line of the input is a sequence of tokens: parts (runs of text without a
\* separator in them) alternating with separator tokens. A stripped line
\* begins and ends with a part. The third separator of the source is the
\* three characters that an em dash becomes when its UTF-8 bytes are read as
\* cp1252, with a space on either side.
Separators == <<" - ", " | ", " a-circumflex euro right-quote ">>
SeparatorTokens == {Separators[k] : k \in DOMAIN Separators}
LabelWords == {"Site"}
Urls == {"https://a.example", "a.example"}
Parts == LabelWords \cup Urls
ButtonLines ==
  {l \in SeqsUpTo(Parts \cup SeparatorTokens, 2 * MaxParts - 1) :
     /\ l # << >> => Len(l) % 2 = 1
     /\ \A i \in DOMAIN l : IF i % 2 = 1 THEN l[i] \in Parts
                                          ELSE l[i] \in SeparatorTokens}
ButtonTexts == SeqsUpTo(ButtonLines, MaxLines)

\* is_valid_url: the pattern admits no whitespace, so no string with a
\* separator in it, and demands the scheme
is_valid_url(url) == Len(url) = 1 /\ url[1] = "https://a.example"

\* line.split(separator, 1)
split_once(line, separator) ==
  LET i == CHOOSE i \in DOMAIN line :
             line[i] = separator /\ \A j \in 1..(i - 1) : line[j] # separator
  IN <<SubSeq(line, 1, i - 1), SubSeq(line, i + 1, Len(line))>>

\* the body of the loop over lines: the first separator of the list that
\* occurs anywhere in the line splits it at its first occurrence; the result
\* is None when the line adds no button
parse_button_line(line) ==
  LET found == {k \in DOMAIN Separators : \E i \in DOMAIN line : line[i] = Separators[k]}
  IN IF found = {} THEN None
     ELSE LET k == CHOOSE k \in found : \A o \in found : k <= o
              parts == split_once(line, Separators[k])
          IN IF is_valid_url(parts[2]) THEN Some(<<parts[1], parts[2]>>) ELSE None

\* parse_button_text: the buttons of the lines, in line order
parse_button_text(lines) ==
  LET kept == SelectSeq([k \in DOMAIN lines |-> parse_button_line(lines[k])],
                        LAMBDA b : IsSome(b))
  IN [j \in DOMAIN kept |-> Get(kept[j])]

ParserFrame ==
  UNCHANGED <<pipeline, render_vars, album_vars, wizard_vars, rows_vars, resolver_vars, service_vars, edit_vars>>

ParserInit ==
  /\ button_text \in ButtonTexts
  /\ parsed_buttons = None
  /\ PipelineIdle /\ store = [p \in Posts |-> None]
  /\ RenderIdle /\ AlbumIdle /\ WizardIdle /\ RowsIdle /\ ResolverIdle /\ ServiceIdle /\ EditIdle

ParseButtons ==
  /\ parsed_buttons = None
  /\ parsed_buttons' = Some(parse_button_text(button_text))
  /\ UNCHANGED button_text
  /\ ParserFrame

ParserNext == ParseButtons

ParserSpec == ParserInit /\ [][ParserNext]_vars

\* C19: the buttons of a batch are, line by line and in line order, one button
\* (label, url) for each line whose leftmost recognized separator is followed
\* by a valid URL, and no button for a line without a separator or with an
\* invalid URL after it; the keyboard built from them shows each label and
\* url unchanged.
C19_EachLineOnItsOwn ==
  IsSome(parsed_buttons) =>
    LET at(l) == {i \in DOMAIN l : l[i] \in SeparatorTokens}
        first(l) == CHOOSE i \in at(l) : \A j \in at(l) : i <= j
        button(l) ==
          IF at(l) = {} THEN None
          ELSE IF is_valid_url(SubSeq(l, first(l) + 1, Len(l)))
               THEN Some(<<SubSeq(l, 1, first(l) - 1), SubSeq(l, first(l) + 1, Len(l))>>)
               ELSE None
        kept == SelectSeq([k \in DOMAIN button_text |-> button(button_text[k])],
                          LAMBDA b : IsSome(b))
        buttons == Get(parsed_buttons)
        keyboard == wizard_keyboard_of(buttons)
    IN /\ buttons = [j \in DOMAIN kept |-> Get(kept[j])]
       /\ \A j \in DOMAIN buttons :
            Get(keyboard)[j] = <<InlineKeyboardButton(buttons[j][1], buttons[j][2])>>

\* ============================================================ parse_datetime
\* An instant is [day, minute, second] in the configured timezone; clock is
\* datetime.now(tz). The input text is an optional day name followed by
\* hours ":" minutes.
\* RUSSIAN_DAYS (segodnya = today, zavtra = tomorrow, poslezavtra = the day after)
RUSSIAN_DAYS == [segodnya |-> 0, zavtra |-> 1, poslezavtra |-> 2]
HoursPerDay == 24
MinutesPerHour == 60
SecondsPerMinute == 60
SecondsOf(t) == ((t.day * HoursPerDay * MinutesPerHour) + t.minute) * SecondsPerMinute + t.second

\* inputs: the hour and minute fields as integers, valid or not
InputHours == {0, 15, 23, 25}
InputMinutes == {0, 30, 59, 60}
DtTexts ==
  [day_name : {None} \cup {Some(n) : n \in DOMAIN RUSSIAN_DAYS},
   hours : InputHours, minutes : InputMinutes]
Clocks ==
  [day : {0}, minute : {0, 14 * MinutesPerHour, 15 * MinutesPerHour + 30,
                        23 * MinutesPerHour + 59},
   second : {0, 30}]

DtError == [dt |-> None, error |-> Some("unrecognized")]

\* mutant: the time of day is never rolled over to the next day
parse_datetime_no_rollover(text, t_now) ==
  IF text.hours \in 0..(HoursPerDay - 1) /\ text.minutes \in 0..(MinutesPerHour - 1)
  THEN [dt |-> Some([day |-> t_now.day + (IF IsSome(text.day_name)
                                          THEN RUSSIAN_DAYS[Get(text.day_name)] ELSE 0),
                     minute |-> text.hours * MinutesPerHour + text.minutes,
                     second |-> 0]),
        error |-> None]
  ELSE DtError

\* parse_datetime, the day-name and HH:MM branch: the date is today plus the
\* day name's offset; time(hour, minute) raises ValueError outside 0..23 and
\* 0..59, after which nothing else recognizes the text; a result on today's
\* date that is not after now moves one day on
parse_datetime(text, t_now) ==
  LET day_offset == IF IsSome(text.day_name) THEN RUSSIAN_DAYS[Get(text.day_name)] ELSE 0
      target_date == t_now.day + day_offset
      result == [day |-> target_date,
                 minute |-> text.hours * MinutesPerHour + text.minutes,
                 second |-> 0]
  IN IF text.hours \in 0..(HoursPerDay - 1) /\ text.minutes \in 0..(MinutesPerHour - 1)
     THEN IF SecondsOf(result) <= SecondsOf(t_now) /\ target_date = t_now.day
          THEN [dt |-> Some([result EXCEPT !.day = @ + 1]), error |-> None]
          ELSE [dt |-> Some(result), error |-> None]
     ELSE DtError

ResolverFrame ==
  UNCHANGED <<pipeline, render_vars, album_vars, wizard_vars, parser_vars, rows_vars,
              service_vars, edit_vars>>

ResolverInit ==
  /\ clock \in Clocks
  /\ dt_text \in {Some(t) : t \in DtTexts}
  /\ dt_result = None
  /\ PipelineIdle /\ store = [p \in Posts |-> None]
  /\ RenderIdle /\ AlbumIdle /\ WizardIdle /\ ParserIdle /\ RowsIdle /\ ServiceIdle /\ EditIdle

ParseDatetime ==
  /\ dt_result = None
  /\ dt_result' = Some(parse_datetime(Get(dt_text), clock))
  /\ UNCHANGED <<clock, dt_text>>
  /\ ResolverFrame

ResolverNext == ParseDatetime

ResolverSpec == ResolverInit /\ [][ResolverNext]_vars

\* the input is a well-formed HH:MM without a day name, and has been resolved
BareTimeResolved ==
  /\ IsSome(dt_result)
  /\ Get(dt_text).day_name = None
  /\ Get(dt_text).hours \in 0..(HoursPerDay - 1)
  /\ Get(dt_text).minutes \in 0..(MinutesPerHour - 1)

\* today at the HH:MM of the input
TodayAt == [day |-> clock.day,
            minute |-> Get(dt_text).hours * MinutesPerHour + Get(dt_text).minutes,
            second |-> 0]

\* C20: for a bare HH:MM the resolver returns today at HH:MM when that
\* instant is after now, and the instant exactly one day (24 hours) later when
\* it has already passed.
C20_BareTimeTodayOrTomorrow ==
  BareTimeResolved =>
    /\ Get(dt_result).error = None
    /\ SecondsOf(TodayAt) > SecondsOf(clock) => Get(dt_result).dt = Some(TodayAt)
    /\ SecondsOf(TodayAt) < SecondsOf(clock) =>
         /\ SecondsOf(Get(Get(dt_result).dt))
              = SecondsOf(TodayAt) + HoursPerDay * MinutesPerHour * SecondsPerMinute
         /\ Get(Get(dt_result).dt) = [TodayAt EXCEPT !.day = @ + 1]

\* a bare HH:MM that had already passed was resolved to tomorrow
C20_Witness ==
  /\ BareTimeResolved
  /\ SecondsOf(TodayAt) < SecondsOf(clock)
  /\ Get(Get(dt_result).dt).day = clock.day + 1

\* ============================================================ post wizard
\* One author's FSMContext in MemoryStorage. Updates are handled as tasks, so
\* a handler that awaits the transport before its last state operation is two
\* steps: its dispatch (state filter, data operations) and, after the
\* transport calls, the state operation left in fsm_pending.
MediaCap == 10
WizardStates == {"waiting_for_content", "waiting_for_more_media", "waiting_for_buttons",
                 "waiting_for_schedule", "confirmation"}

\* inputs of the wizard's handlers
WizardTexts == {"hello"}
WizardButtonTexts ==
  {<<l>> : l \in {x \in ButtonLines : Len(x) <= 3 /\ (x # << >> => x[1] \in LabelWords)}}
WizardDtTexts ==
  {t \in DtTexts : /\ t.day_name \in {None, Some("zavtra")}
                   /\ t.hours \in {15, 25} /\ t.minutes = 0}

\* mutant: the state is reset and the data kept
clear_keeps_data == [state |-> None, data |-> fsm_data]

\* FSMContext.clear(): no state, empty data
clear == [state |-> None, data |-> NoData]

\* FSMContext.update_data(**changes)
update_data(data, changes) ==
  [k \in DOMAIN data |-> IF k \in DOMAIN changes THEN changes[k] ELSE data[k]]

Update(name, step) == [name |-> name, from |-> fsm_state, step |-> step]

WizardFrame ==
  UNCHANGED <<pipeline, render_vars, album_vars, parser_vars, rows_vars, resolver_vars, service_vars, edit_vars>>

\* the handler goes on to await the transport; op is what it does afterwards
Suspend(name, op) ==
  /\ Len(fsm_pending) < MaxPending
  /\ fsm_pending' = Append(fsm_pending, [name |-> name, from |-> fsm_state, op |-> op])
  /\ handled' = Update(name, "suspended")

\* the handler is over once its data operations are done
Finish_(name) ==
  /\ fsm_pending' = fsm_pending
  /\ handled' = Update(name, "done")

\* the handler answers with the validation error and returns
Reject(name) ==
  /\ fsm_pending' = fsm_pending
  /\ handled' = Update(name, "rejected")

InState(st) == fsm_state = Some(st)

WizardInit ==
  /\ WizardIdle
  /\ PipelineIdle /\ store = [p \in Posts |-> None]
  /\ RenderIdle /\ AlbumIdle /\ ParserIdle /\ RowsIdle /\ ResolverIdle /\ ServiceIdle /\ EditIdle

\* mutant: /new without state.clear()
cmd_new_post_keeps_data ==
  /\ fsm_state' = Some("waiting_for_content")
  /\ UNCHANGED fsm_data
  /\ Finish_("cmd_new_post")
  /\ WizardFrame

\* /new
cmd_new_post ==
  /\ fsm_state' = Some("waiting_for_content")
  /\ fsm_data' = clear.data
  /\ Finish_("cmd_new_post")
  /\ WizardFrame

\* the first content message: text, or a media item with its caption
FirstContent(name, text, entities, media_type, next) ==
  /\ InState("waiting_for_content")
  /\ fsm_data' = update_data(fsm_data,
                   [text |-> Some(text), text_entities |-> entities,
                    media_type |-> media_type,
                    media_file_ids |-> IF media_type = None THEN << >> ELSE <<1>>,
                    buttons |-> << >>])
  /\ UNCHANGED fsm_state
  /\ Suspend(name, Some(next))

handle_text_content ==
  /\ \E text \in WizardTexts, entities \in {None, Some(<<"bold">>)} :
       FirstContent("handle_text_content", text, entities, None, "waiting_for_buttons")
  /\ WizardFrame

handle_photo_content ==
  /\ \E caption \in Texts :
       FirstContent("handle_photo_content", caption, None, Some("photo"),
                    "waiting_for_more_media")
  /\ WizardFrame

handle_video_content ==
  /\ \E caption \in Texts :
       FirstContent("handle_video_content", caption, None, Some("video"),
                    "waiting_for_more_media")
  /\ WizardFrame

\* mutant: a document goes on to _ask_for_more_media
handle_document_content_as_album ==
  /\ \E caption \in Texts :
       FirstContent("handle_document_content", caption, None, Some("document"),
                    "waiting_for_more_media")
  /\ WizardFrame

handle_document_content ==
  /\ \E caption \in Texts :
       FirstContent("handle_document_content", caption, None, Some("document"),
                    "waiting_for_buttons")
  /\ WizardFrame

handle_animation_content ==
  /\ \E caption \in Texts :
       FirstContent("handle_animation_content", caption, None, Some("animation"),
                    "waiting_for_buttons")
  /\ WizardFrame

\* one more photo or video for the album; at the cap the handler goes on to
\* _ask_for_buttons
AdditionalMedia(name, changes) ==
  LET media_file_ids == Append(fsm_data.media_file_ids, Len(fsm_data.media_file_ids) + 1)
  IN /\ InState("waiting_for_more_media")
     /\ fsm_data' = update_data(fsm_data, [media_file_ids |-> media_file_ids] @@ changes)
     /\ UNCHANGED fsm_state
     /\ IF Len(media_file_ids) >= MediaCap
        THEN Suspend(name, Some("waiting_for_buttons"))
        ELSE Finish_(name)

handle_additional_photo ==
  /\ AdditionalMedia("handle_additional_photo", << >>)
  /\ WizardFrame

handle_additional_video ==
  /\ AdditionalMedia("handle_additional_video", [media_type |-> Some("video")])
  /\ WizardFrame

\* a callback that only moves the wizard on
StepOver(name, from, next) ==
  /\ InState(from)
  /\ UNCHANGED <<fsm_state, fsm_data>>
  /\ Suspend(name, next)

done_media_step ==
  /\ StepOver("done_media_step", "waiting_for_more_media", Some("waiting_for_buttons"))
  /\ WizardFrame

\* mutant: zero valid lines end the flow (state.clear()) with the error answer
handle_buttons_input_clears ==
  \E text \in WizardButtonTexts :
    LET new_buttons == parse_button_text(text) IN
    /\ InState("waiting_for_buttons")
    /\ Len(fsm_data.buttons) + Len(new_buttons) <= MaxButtons
    /\ IF new_buttons = << >>
       THEN /\ fsm_state' = clear.state /\ fsm_data' = clear.data
            /\ Reject("handle_buttons_input")
       ELSE /\ fsm_data' = update_data(fsm_data, [buttons |-> fsm_data.buttons \o new_buttons])
            /\ UNCHANGED fsm_state
            /\ Finish_("handle_buttons_input")
    /\ WizardFrame

handle_buttons_input ==
  \E text \in WizardButtonTexts :
    LET new_buttons == parse_button_text(text) IN
    /\ InState("waiting_for_buttons")
    /\ Len(fsm_data.buttons) + Len(new_buttons) <= MaxButtons
    /\ UNCHANGED fsm_state
    /\ IF new_buttons = << >>
       THEN /\ UNCHANGED fsm_data
            /\ Reject("handle_buttons_input")
       ELSE /\ fsm_data' = update_data(fsm_data, [buttons |-> fsm_data.buttons \o new_buttons])
            /\ Finish_("handle_buttons_input")
    /\ WizardFrame

skip_buttons_step ==
  /\ StepOver("skip_buttons_step", "waiting_for_buttons", Some("waiting_for_schedule"))
  /\ WizardFrame

done_buttons_step ==
  /\ StepOver("done_buttons_step", "waiting_for_buttons", Some("waiting_for_schedule"))
  /\ WizardFrame

\* datetime.isoformat() of the resolver's result: date, hours, minutes, seconds
isoformat(dt) ==
  <<dt.day, dt.minute \div MinutesPerHour, dt.minute % MinutesPerHour, dt.second>>

\* mutant: the error answer is skipped and the handler goes on to Confirmation
handle_schedule_input_ignores_error ==
  \E text \in WizardDtTexts :
    LET parsed == parse_datetime(text, clock) IN
    /\ InState("waiting_for_schedule")
    /\ UNCHANGED fsm_state
    /\ fsm_data' = update_data(fsm_data,
                     [scheduled_at |-> IF IsSome(parsed.dt)
                                       THEN Some(isoformat(Get(parsed.dt))) ELSE None])
    /\ Suspend("handle_schedule_input", Some("confirmation"))
    /\ WizardFrame

handle_schedule_input ==
  \E text \in WizardDtTexts :
    LET parsed == parse_datetime(text, clock) IN
    /\ InState("waiting_for_schedule")
    /\ UNCHANGED fsm_state
    /\ IF IsSome(parsed.error)
       THEN /\ UNCHANGED fsm_data
            /\ Reject("handle_schedule_input")
       ELSE /\ fsm_data' = update_data(fsm_data,
                             [scheduled_at |-> IF IsSome(parsed.dt)
                                               THEN Some(isoformat(Get(parsed.dt))) ELSE None])
            /\ Suspend("handle_schedule_input", Some("confirmation"))
    /\ WizardFrame

\* the "wizard_cancel" callback: no state filter
cancel_wizard ==
  /\ fsm_state' = clear.state
  /\ fsm_data' = clear.data
  /\ Finish_("cancel_wizard")
  /\ WizardFrame

\* /cancel, handled by the common router before any wizard handler
cmd_cancel ==
  /\ IF fsm_state = None
     THEN UNCHANGED <<fsm_state, fsm_data>>
     ELSE fsm_state' = clear.state /\ fsm_data' = clear.data
  /\ Finish_("cmd_cancel")
  /\ WizardFrame

\* "wizard_publish": answers that publication is not implemented, then clears
publish_immediately ==
  /\ StepOver("publish_immediately", "confirmation", None)
  /\ WizardFrame

\* "wizard_save_draft": answers that saving is not implemented, then clears
save_as_draft ==
  /\ StepOver("save_as_draft", "confirmation", None)
  /\ WizardFrame

\* a suspended handler's transport calls return and it does its last state
\* operation: set_state(op), or clear() when op is None
Resume ==
  \E i \in DOMAIN fsm_pending :
    LET h == fsm_pending[i] IN
    /\ fsm_pending' = SubSeq(fsm_pending, 1, i - 1) \o SubSeq(fsm_pending, i + 1, Len(fsm_pending))
    /\ IF IsSome(h.op)
       THEN fsm_state' = h.op /\ UNCHANGED fsm_data
       ELSE fsm_state' = clear.state /\ fsm_data' = clear.data
    /\ handled' = [name |-> h.name, from |-> h.from, step |-> "done"]
    /\ WizardFrame

WizardNext ==
  \/ cmd_new_post
  \/ handle_text_content \/ handle_photo_content \/ handle_video_content
  \/ handle_document_content \/ handle_animation_content
  \/ handle_additional_photo \/ handle_additional_video \/ done_media_step
  \/ handle_buttons_input \/ skip_buttons_step \/ done_buttons_step
  \/ handle_schedule_input
  \/ cancel_wizard \/ cmd_cancel
  \/ publish_immediately \/ save_as_draft
  \/ Resume

WizardSpec == WizardInit /\ [][WizardNext]_vars

Cancels == {"cancel_wizard", "cmd_cancel"}
Confirmations == {"publish_immediately", "save_as_draft"}
SavedPosts == {p \in Posts : IsSome(store[p])}

\* C14: a step of cancel_wizard or cmd_cancel, taken in whatever wizard state
\* and with whatever handlers still in flight, leaves the author without a
\* state and without data, and writes nothing to the store.
C14_CancelClearsWizard ==
  [][handled'.name \in Cancels
       => /\ fsm_state' = None
          /\ fsm_data' = NoData
          /\ store' = store
          /\ SavedPosts = {}]_vars

\* the wizard was cancelled in Confirmation, with text, buttons and an instant
\* accumulated, and is back to no state and no data
C14_Witness ==
  /\ handled.name \in Cancels
  /\ handled.from = Some("confirmation")
  /\ fsm_state = None /\ fsm_data = NoData
  /\ SavedPosts = {}

\* C15: when publish_immediately or save_as_draft, dispatched in Confirmation,
\* has run to its end, the store holds exactly one post more than before:
\* published or failed after publish_immediately; after save_as_draft a draft
\* when no instant was recorded, else a scheduled post with its job.
C15_ConfirmationPersistsOnePost ==
  [][(handled'.name \in Confirmations /\ handled'.step = "done")
       => \E p \in Posts :
            /\ store[p] = None /\ IsSome(store'[p])
            /\ \A q \in Posts \ {p} : store'[q] = store[q]
            /\ IF handled'.name = "publish_immediately"
               THEN Get(store'[p]).status \in {PUBLISHED, FAILED}
               ELSE IF fsm_data.scheduled_at = None
               THEN Get(store'[p]).status = DRAFT
               ELSE /\ Get(store'[p]).status = SCHEDULED
                    /\ IsSome(jobs'[JobId(p)])]_vars

\* ============================================================ repositories
\* draft_posts (store) with its child tables draft_media and draft_buttons. A
\* media row is identified by its post and position, a button row by its post
\* and keyboard row. returned is the last repository call and its outcome.
RowSlots == 0..(MaxRows - 1)
MediaOf(p) == {[post_id |-> p, position |-> i] : i \in RowSlots}
ButtonsOf(p) == {[post_id |-> p, row |-> i] : i \in RowSlots}

\* DraftMediaRepository.get_by_post / DraftButtonRepository.get_by_post
get_by_post(rows, post_id) == {r \in rows : r.post_id = post_id}

\* mutant: the foreign key does nothing when the parent row goes
on_delete_no_action(rows, post_id) == rows

\* ForeignKey("draft_posts.id", ondelete="CASCADE"): the database removes the
\* child rows of a deleted post
on_delete_cascade(rows, post_id) == {r \in rows : r.post_id # post_id}

\* the keyword arguments DraftPostRepository.create passes to DraftPost(...)
CreateKwargs == {"author_id", "author_username", "text", "text_entities",
                 "scheduled_at", "status"}

\* the mapped attributes of DraftPost
DraftPostColumns == {"id", "created_at", "updated_at", "author_id", "author_username",
                     "text", "scheduled_at", "status", "published_message_id",
                     "published_at", "scheduler_job_id", "disable_link_preview",
                     "disable_notification", "media", "buttons"}

\* DraftPostRepository.create: the declarative constructor raises TypeError
\* for a keyword that is not a mapped attribute; otherwise the row is added
\* under the next free id
create(s) ==
  IF ~(CreateKwargs \subseteq DraftPostColumns)
  THEN [raised |-> Some("TypeError"), post_id |-> None, store |-> s]
  ELSE LET free == {p \in Posts : s[p] = None}
           id == CHOOSE p \in free : \A q \in free : p <= q
       IN [raised |-> None, post_id |-> Some(id),
           store |-> [s EXCEPT ![id] = Some(DraftPost)]]

RowsFrame ==
  UNCHANGED <<now, running, jobs, timer, tasks, channel, sent_this_run,
              render_vars, album_vars, wizard_vars, parser_vars, resolver_vars, service_vars, edit_vars>>

\* posts written by an earlier version of the program, with their child rows
RowsInit ==
  /\ store \in [Posts -> {None, Some(DraftPost)}]
  /\ media_rows \in SUBSET UNION {MediaOf(p) : p \in {q \in Posts : IsSome(store[q])}}
  /\ button_rows \in SUBSET UNION {ButtonsOf(p) : p \in {q \in Posts : IsSome(store[q])}}
  /\ returned = None
  /\ PipelineIdle
  /\ RenderIdle /\ AlbumIdle /\ WizardIdle /\ ParserIdle /\ ResolverIdle /\ ServiceIdle /\ EditIdle

\* DraftPostRepository.create(author_id, author_username, text), committed
RepoCreate ==
  /\ \E p \in Posts : store[p] = None
  /\ LET r == create(store) IN
       /\ store' = r.store
       /\ returned' = Some([op |-> "create", post_id |-> r.post_id,
                            raised |-> r.raised, result |-> None, cascaded |-> 0])
  /\ UNCHANGED <<media_rows, button_rows>>
  /\ RowsFrame

\* DraftPostRepository.get_by_id(post_id)
RepoGetById(post_id) ==
  /\ returned' = Some([op |-> "get_by_id", post_id |-> Some(post_id), raised |-> None,
                       result |-> get_by_id(store, post_id), cascaded |-> 0])
  /\ UNCHANGED <<store, media_rows, button_rows>>
  /\ RowsFrame

\* DraftButtonRepository.add_button for an existing post (edit flow)
RepoAddButton(post_id) ==
  /\ IsSome(store[post_id])
  /\ \E b \in ButtonsOf(post_id) \ button_rows :
       /\ \A o \in ButtonsOf(post_id) \ button_rows : b.row <= o.row
       /\ button_rows' = button_rows \cup {b}
  /\ returned' = Some([op |-> "add_button", post_id |-> Some(post_id), raised |-> None,
                       result |-> None, cascaded |-> 0])
  /\ UNCHANGED <<store, media_rows>>
  /\ RowsFrame

\* DraftPostRepository.delete(post_id), committed: the DELETE on draft_posts
\* and what the foreign keys of the child tables do with it; the call returns
\* rowcount > 0
RepoDelete(post_id) ==
  /\ store' = delete(store, post_id)
  /\ media_rows' = IF IsSome(store[post_id])
                   THEN on_delete_cascade(media_rows, post_id) ELSE media_rows
  /\ button_rows' = IF IsSome(store[post_id])
                    THEN on_delete_cascade(button_rows, post_id) ELSE button_rows
  /\ returned' = Some([op |-> "delete", post_id |-> Some(post_id), raised |-> None,
                       result |-> Some(IsSome(store[post_id])),
                       cascaded |-> Cardinality(media_rows) - Cardinality(media_rows')
                                    + Cardinality(button_rows) - Cardinality(button_rows')])
  /\ RowsFrame

RowsNext ==
  \/ RepoCreate
  \/ \E p \in Posts : RepoGetById(p) \/ RepoAddButton(p) \/ RepoDelete(p)

RowsSpec == RowsInit /\ [][RowsNext]_vars

\* the step is a delete of post p
Deletes(p) ==
  /\ IsSome(returned')
  /\ Get(returned').op = "delete"
  /\ Get(returned').post_id = Some(p)

\* C16: a delete of post p leaves no media and no button rows of p, lowers the
\* number of media rows and of button rows by exactly the numbers p had, and
\* leaves the rows of every other post as they were.
C16_DeleteCascades ==
  [][\A p \in Posts :
       Deletes(p) =>
         /\ store'[p] = None
         /\ get_by_post(media_rows', p) = {}
         /\ get_by_post(button_rows', p) = {}
         /\ Cardinality(media_rows')
              = Cardinality(media_rows) - Cardinality(get_by_post(media_rows, p))
         /\ Cardinality(button_rows')
              = Cardinality(button_rows) - Cardinality(get_by_post(button_rows, p))
         /\ \A q \in Posts \ {p} :
              /\ get_by_post(media_rows', q) = get_by_post(media_rows, q)
              /\ get_by_post(button_rows', q) = get_by_post(button_rows, q)
              /\ store'[q] = store[q]]_vars

\* a post with child rows was deleted while another post keeps its media and
\* button rows
C16_Witness ==
  /\ IsSome(returned)
  /\ Get(returned).op = "delete"
  /\ Get(returned).result = Some(TRUE)
  /\ Get(returned).cascaded >= 2
  /\ \E q \in Posts : /\ IsSome(store[q])
                      /\ get_by_post(media_rows, q) # {}
                      /\ get_by_post(button_rows, q) # {}

\* C18: create returns a post with a fresh non-null id, stored as a draft, and
\* get_by_id returns that post for its id and None for an id that was never
\* created.
C18_CreateThenGet ==
  /\ (IsSome(returned) /\ Get(returned).op = "create") =>
       /\ Get(returned).raised = None
       /\ IsSome(Get(returned).post_id)
       /\ get_by_id(store, Get(Get(returned).post_id)) = Some(DraftPost)
  /\ (IsSome(returned) /\ Get(returned).op = "get_by_id") =>
       Get(returned).result = store[Get(Get(returned).post_id)]

\* ---------------------------------------------------------------------
\* Store invariants of the post rows (repo.py, publishing.py, drafts.py)
\* ---------------------------------------------------------------------

\* C21: in every reachable store state a post's scheduled_at is set if and
\* only if its status is scheduled; scheduled -> published and
\* scheduled -> failed leave scheduled_at cleared.
C21_ScheduledAtIffScheduled ==
    \A p \in Posts :
        Exists(p) => (IsSome(Row(p).scheduled_at) <=> StatusIs(p, SCHEDULED))

\* C22: in every reachable store state a post's scheduler_job_id is set if
\* and only if its status is scheduled; cancel and publish clear it.
C22_JobIdIffScheduled ==
    \A p \in Posts :
        Exists(p) => (IsSome(Row(p).scheduler_job_id) <=> StatusIs(p, SCHEDULED))

\* C23: the only status transition out of failed is failed -> draft: no step
\* sends a post that was read as failed, and no step writes published,
\* scheduled or failed onto a row whose status is failed.
C23_FailedOnlyToDraft ==
    [][ /\ \A p \in Posts :
              (StatusIs(p, FAILED) /\ Exists(p)') =>
                  (Row(p)'.status \in {FAILED, DRAFT})
        /\ \A k \in Slots :
              (tasks[k] = Idle /\ tasks'[k].kind \in Publishers /\ IsSome(tasks'[k].post)) =>
                  Get(tasks'[k].post).status # FAILED ]_vars

\* C24: when a job fires, the post sent to the channel is the row stored at
\* fire time (the job carries the post id only), and after the callback's
\* commit the status is published or failed and scheduler_job_id is cleared.
C24_FireSendsStoredPostAndClearsJob ==
    [][ \A k \in Slots :
          tasks[k].kind = "publish_scheduled_post" =>
            /\ (tasks[k].pc = "read" /\ tasks'[k].pc = "send") =>
                   tasks'[k].post = store[tasks[k].post_id]
            /\ (LastStep(k, "mark") /\ IsSome(store'[tasks[k].post_id])) =>
                   /\ Get(store'[tasks[k].post_id]).status \in {PUBLISHED, FAILED}
                   /\ Get(store'[tasks[k].post_id]).scheduler_job_id = None ]_vars

\* ---------------------------------------------------------------------
\* The scheduler service called directly (services/scheduler.py)
\* ---------------------------------------------------------------------
\* the instants a caller may pass to schedule_post
RunDates == {k * ClockStep : k \in 1..MaxTicks}

ServiceFrame ==
  UNCHANGED <<render_vars, album_vars, wizard_vars, parser_vars, rows_vars, resolver_vars,
              edit_vars>>

\* the number of the call that is made next
CallNo == IF IsSome(job_call) THEN Get(job_call).n + 1 ELSE 1

ServiceInit ==
  /\ Init
  /\ store = [p \in Posts |-> Some(DraftPost)]

\* await schedule_post(post_id, scheduled_at): RuntimeError when the
\* scheduler global is not set, else the job is registered and its id returned
CallSchedulePost(post_id, scheduled_at) ==
  /\ CallNo <= MaxCalls
  /\ LET r == schedule_post(jobs, post_id, scheduled_at) IN
       /\ jobs' = IF running THEN r.jobs ELSE jobs
       /\ timer' = IF running THEN [timer EXCEPT ![r.job_id] = "idle"] ELSE timer
       /\ job_call' = Some([n |-> CallNo, op |-> "schedule_post",
                            job_id |-> JobId(post_id), run_date |-> Some(scheduled_at),
                            before |-> jobs[JobId(post_id)],
                            raised |-> ~running,
                            returned |-> IF running THEN Some(r.job_id) ELSE None,
                            ok |-> FALSE])
  /\ UNCHANGED <<now, running, store, tasks, channel, sent_this_run>>
  /\ ServiceFrame

\* await cancel_scheduled_post(job_id)
CallCancelScheduledPost(job_id) ==
  /\ CallNo <= MaxCalls
  /\ LET c == cancel_scheduled_post(running, jobs, job_id) IN
       /\ jobs' = c.jobs
       /\ job_call' = Some([n |-> CallNo, op |-> "cancel_scheduled_post",
                            job_id |-> job_id, run_date |-> None,
                            before |-> jobs[job_id],
                            raised |-> FALSE,
                            returned |-> None, ok |-> c.ok])
  /\ UNCHANGED <<now, running, store, timer, tasks, channel, sent_this_run>>
  /\ ServiceFrame

ServiceNext ==
  \/ start_scheduler
  \/ Stop
  \/ Tick
  \/ \E p \in Posts : Fire(JobId(p), MaxTasks)
  \/ \E k \in Slots : publish_scheduled_post_read(k)
  \/ \E p \in Posts, t \in RunDates : CallSchedulePost(p, t)
  \/ \E id \in JobIds : CallCancelScheduledPost(id)

ServiceSpec == ServiceInit /\ [][ServiceNext]_vars

\* the step is a call of op
Calls(op) == IsSome(job_call') /\ job_call' # job_call /\ Get(job_call').op = op

\* C25: after every schedule_post call for a post id the job table holds the
\* one job of that post with the instant of this most recent call, whether or
\* not a job of the post was pending before; the other jobs are untouched.
C25_RescheduleReplacesJob ==
    [][ (Calls("schedule_post") /\ ~Get(job_call').raised) =>
          /\ Get(job_call').returned = Some(Get(job_call').job_id)
          /\ jobs'[Get(job_call').job_id] = Get(job_call').run_date
          /\ \A id \in JobIds \ {Get(job_call').job_id} : jobs'[id] = jobs[id] ]_vars

\* a second schedule_post call has replaced a pending job of another instant
C25_Witness ==
    /\ IsSome(job_call)
    /\ Get(job_call).op = "schedule_post"
    /\ IsSome(Get(job_call).before)
    /\ Get(job_call).before # Get(job_call).run_date
    /\ jobs[Get(job_call).job_id] = Get(job_call).run_date

\* C26: cancel_scheduled_post removes the pending job and returns true; for a
\* job id without a pending job (unknown, fired or cancelled) it returns false;
\* it never raises and leaves every other job unchanged.
C26_CancelIsSafe ==
    [][ Calls("cancel_scheduled_post") =>
          /\ ~Get(job_call').raised
          /\ Get(job_call').ok = IsSome(jobs[Get(job_call').job_id])
          /\ jobs'[Get(job_call').job_id] = None
          /\ \A id \in JobIds \ {Get(job_call').job_id} : jobs'[id] = jobs[id] ]_vars

\* cancel of a job that has already fired returned false and another job is
\* still pending
C26_Witness ==
    /\ IsSome(job_call)
    /\ Get(job_call).op = "cancel_scheduled_post"
    /\ ~Get(job_call).ok
    /\ timer[Get(job_call).job_id] = "delivered"
    /\ \E id \in JobIds \ {Get(job_call).job_id} : IsSome(jobs[id])

\* ---------------------------------------------------------------------
\* MediaGroupManager: calls that wake after the group was finalized
\* ---------------------------------------------------------------------

\* C27: every process_message call of a group that wakes from its sleep after
\* another call has finalized the group (the collector it added to is gone)
\* returns None: it raises no error and does not finalize the group a second
\* time.
C27_LateWakerReturnsNone ==
    [][ \A m \in Messages :
          (/\ calls[m].pc = "sleeping" /\ calls'[m].pc # "sleeping"
           /\ Finalizers # {} /\ collectors = None) =>
              calls'[m].pc = "returned_none" ]_vars

\* ---------------------------------------------------------------------
\* Post wizard: media cap, first content, /new
\* ---------------------------------------------------------------------

\* C28: in every reachable wizard state the accumulated media list has at
\* most 10 items, also while attachment handlers of the author are suspended
\* in their transport calls.
C28_AtMostTenMedia == Len(fsm_data.media_file_ids) <= MediaCap

\* where the spec sends each kind of first content
ContentTarget ==
  [handle_text_content |-> "waiting_for_buttons",
   handle_photo_content |-> "waiting_for_more_media",
   handle_video_content |-> "waiting_for_more_media",
   handle_document_content |-> "waiting_for_buttons",
   handle_animation_content |-> "waiting_for_buttons"]

\* C29: from AwaitingContent a text input stores no media and ends in
\* AwaitingButtons, a photo or video stores that one media item and ends in
\* AwaitingMoreMedia, a document or animation ends in AwaitingButtons; no
\* other input is handled in AwaitingContent (apart from /new and the
\* cancels), so it changes neither the state nor the data.
C29_FirstContentTransitions ==
    [][ /\ (handled'.name \in DOMAIN ContentTarget /\ handled'.step = "suspended") =>
              /\ fsm_state = Some("waiting_for_content")
              /\ fsm_state' = fsm_state
              /\ handled'.name = "handle_text_content" =>
                     fsm_data'.media_file_ids = << >> /\ fsm_data'.media_type = None
              /\ handled'.name \in {"handle_photo_content", "handle_video_content"} =>
                     Len(fsm_data'.media_file_ids) = 1 /\ IsSome(fsm_data'.media_type)
        /\ (handled'.name \in DOMAIN ContentTarget /\ handled'.step = "done") =>
              /\ fsm_state' = Some(ContentTarget[handled'.name])
              /\ fsm_data' = fsm_data
        /\ (handled' # handled /\ handled'.from = Some("waiting_for_content")) =>
              handled'.name \in DOMAIN ContentTarget \cup Cancels \cup {"cmd_new_post"} ]_vars

\* a first photo has taken the wizard to AwaitingMoreMedia with one media item
C29_Witness ==
    /\ handled.name = "handle_photo_content" /\ handled.step = "done"
    /\ fsm_state = Some("waiting_for_more_media")
    /\ Len(fsm_data.media_file_ids) = 1

\* C30: a step of cmd_new_post, taken in whatever wizard state, leaves the
\* author in AwaitingContent with empty data: no text, media, buttons or
\* schedule of the previous flow remains.
C30_NewDiscardsPreviousFlow ==
    [][ handled'.name = "cmd_new_post" =>
          /\ fsm_state' = Some("waiting_for_content")
          /\ fsm_data' = NoData ]_vars

\* /new was sent in Confirmation, with the previous flow's data accumulated
C30_Witness ==
    /\ handled.name = "cmd_new_post"
    /\ handled.from = Some("confirmation")
    /\ fsm_state = Some("waiting_for_content") /\ fsm_data = NoData

\* C31: a handler that rejects its input (a button submission with zero valid
\* lines in AwaitingButtons, an unparseable datetime in AwaitingSchedule)
\* leaves the wizard in the state it was dispatched in, with the accumulated
\* text, media, buttons and schedule unchanged.
C31_RejectedInputChangesNothing ==
    [][ handled'.step = "rejected" =>
          /\ handled'.name \in {"handle_buttons_input", "handle_schedule_input"}
          /\ fsm_state' = fsm_state
          /\ fsm_state' = handled'.from
          /\ fsm_data' = fsm_data
          /\ fsm_pending' = fsm_pending ]_vars

\* an unparseable datetime was rejected in AwaitingSchedule, with text and
\* buttons accumulated
C31_Witness ==
    /\ handled.step = "rejected"
    /\ handled.name = "handle_schedule_input"
    /\ fsm_state = Some("waiting_for_schedule")
    /\ IsSome(fsm_data.text) /\ fsm_data.buttons # << >>

\* datetime.fromisoformat: the instant an isoformat string stands for
fromisoformat(iso) ==
  [day |-> iso[1], minute |-> iso[2] * MinutesPerHour + iso[3], second |-> iso[4]]

C33_PublishedNeverDeleted ==
    [][ \A p \in Posts : StatusIs(p, PUBLISHED) => Exists(p)' ]_vars

\* ---------------------------------------------------------------------
\* publish_post of a post with one media item
\* ---------------------------------------------------------------------

\* C34: publishing a post with exactly one media item makes exactly one
\* transport call: the delivery operation of the item's media kind, with the
\* post text as caption, the post's entities attached to the caption and the
\* button keyboard attached to that message.
C34_SingleMediaOneCall ==
  (IsSome(rendered["publish_post"]) /\ Len(content.media) = 1)
  => LET cs == Get(rendered["publish_post"]) IN
       /\ Len(cs) = 1
       /\ cs[1].method = "send_" \o content.media[1]
       /\ cs[1].media = <<StoredPost(content).media[1].file_id>>
       /\ cs[1].text = content.text
       /\ cs[1].entities = content.entities
       /\ cs[1].reply_markup = build_keyboard(StoredPost(content).buttons)

\* ---------------------------------------------------------------------
\* parse_datetime with a day-prefix keyword
\* ---------------------------------------------------------------------

\* C36: for a day-prefix keyword (today, tomorrow, day after tomorrow)
\* followed by a well-formed HH:MM the resolver returns that calendar date
\* (now's date plus 0, 1 or 2 days) at HH:MM, whether or not the instant has
\* already passed.
C36_DayPrefixExactDate ==
  (/\ IsSome(dt_result)
   /\ IsSome(Get(dt_text).day_name)
   /\ Get(dt_text).hours \in 0..(HoursPerDay - 1)
   /\ Get(dt_text).minutes \in 0..(MinutesPerHour - 1))
  => /\ Get(dt_result).error = None
     /\ Get(dt_result).dt =
          Some([day |-> clock.day + RUSSIAN_DAYS[Get(Get(dt_text).day_name)],
                minute |-> Get(dt_text).hours * MinutesPerHour + Get(dt_text).minutes,
                second |-> 0])

\* ---------------------------------------------------------------------
\* parse_button_text: which separator splits a line
\* ---------------------------------------------------------------------

\* the position of the leftmost separator token of a line, 0 when it has none
LeftmostSeparator(line) ==
  LET at == {i \in DOMAIN line : line[i] \in SeparatorTokens}
  IN IF at = {} THEN 0 ELSE CHOOSE i \in at : \A j \in at : i <= j

\* C37: a line is split at the leftmost occurrence of any separator token:
\* what precedes it is the label, what follows it is the URL candidate, and the
\* line gives no button when that candidate is not a valid URL (one-line
\* inputs).
C37_LeftmostSeparatorSplits ==
  (IsSome(parsed_buttons) /\ Len(button_text) = 1) =>
    LET line == button_text[1]
        at == LeftmostSeparator(line)
        label == SubSeq(line, 1, at - 1)
        url == SubSeq(line, at + 1, Len(line))
    IN Get(parsed_buttons) =
         IF at # 0 /\ is_valid_url(url) THEN <<(<<label, url>>)>> ELSE << >>

\* ---------------------------------------------------------------------
\* publish_scheduled_post for a missing or not scheduled post
\* ---------------------------------------------------------------------

\* C38: a timer callback that finds no post of its id in the store, or finds
\* it with a status other than scheduled, ends at once: it makes no transport
\* call and leaves the store unchanged.
C38_FireWithoutScheduledPost ==
    [][ \A k \in Slots :
          (/\ tasks[k].kind = "publish_scheduled_post" /\ tasks[k].pc = "read"
           /\ tasks'[k] # tasks[k] /\ running'
           /\ ~StatusIs(tasks[k].post_id, SCHEDULED)) =>
              /\ tasks'[k] = Idle
              /\ store' = store
              /\ channel' = channel ]_vars

\* the timer has fired and its callback is about to read a post that was
\* deleted in the meantime
C38_Witness ==
    \E k \in Slots :
      /\ tasks[k].kind = "publish_scheduled_post" /\ tasks[k].pc = "read"
      /\ running
      /\ ~Exists(tasks[k].post_id)

\* ============================================================ edit_published
\* One author edits one published post. A handler is one step: the session
\* it opens commits when the handler returns, and the outcome of its channel
\* call is an input (ok). edit_handled.seq counts the edits handled.
MaxEdits == 4
MaxButtonIds == 3

EditStates == {"selecting_action", "editing_text", "editing_buttons", "adding_button",
               "editing_button"}

\* a MessageEntity: its type and, for a text_mention, the user
Bold == [type |-> "bold", user |-> None]
Mention == [type |-> "text_mention", user |-> Some("author")]

\* inputs of the handlers
EditTextInputs ==
  {[text |-> "hello", entities |-> None],
   [text |-> "world", entities |-> Some(<<Bold>>)],
   [text |-> "world", entities |-> Some(<<Mention>>)]}
EditButtonTexts ==
  {<<l>> : l \in {<<"Site">>, <<"Site", Separators[1], "https://a.example">>,
                  <<"https://a.example">>}}
ButtonIds == 1..MaxButtonIds

\* entities_to_list: None for no entities, else one dict per entity
entities_to_list(entities) ==
  IF entities = None \/ Get(entities) = << >> THEN None
  ELSE Some([i \in DOMAIN Get(entities) |->
               [type |-> Get(entities)[i].type, user |-> Get(entities)[i].user]])

\* list_to_entities: None for no data, else one MessageEntity per dict, built
\* without the user
list_to_entities(data) ==
  IF data = None \/ Get(data) = << >> THEN None
  ELSE Some([i \in DOMAIN Get(data) |-> [type |-> Get(data)[i].type, user |-> None]])

\* post.buttons: order_by DraftButton.row, DraftButton.position (the position
\* is 0 for every button of this flow)
OrderedButtons(rows) ==
  [i \in 1..Cardinality(rows) |->
     CHOOSE b \in rows :
       Cardinality({o \in rows : o.row < b.row \/ (o.row = b.row /\ o.id < b.id)}) = i - 1]

\* the keyboard built from post.buttons: one button per keyboard row, None
\* for no buttons
InlineKeyboardMarkup(buttons) ==
  IF buttons = << >> THEN None
  ELSE Some([i \in DOMAIN buttons |-> <<[text |-> buttons[i].text, url |-> buttons[i].url]>>])

\* the button a post may have been published with
OldButton == [id |-> 1, text |-> <<"Old">>, url |-> <<"https://old.example">>, row |-> 0]

\* a published post (next_id is the next id of the draft_buttons sequence)
PublishedPosts ==
  {[status |-> PUBLISHED, text |-> "hello", published_message_id |-> Some(1),
    media |-> m, buttons |-> b, next_id |-> 2] :
     m \in BOOLEAN, b \in {{}, {OldButton}}}

EditFrame ==
  UNCHANGED <<pipeline, render_vars, album_vars, wizard_vars, parser_vars, rows_vars,
              resolver_vars, service_vars>>

\* the post as publish_post left it in the store and in the channel
EditInit ==
  /\ edit_fsm = [state |-> None, edit_button_id |-> None]
  /\ edit_post \in {Some(p) : p \in PublishedPosts}
  /\ edit_message = Some([text |-> Get(edit_post).text, entities |-> None,
                          keyboard |-> InlineKeyboardMarkup(
                                         OrderedButtons(Get(edit_post).buttons))])
  /\ edit_handled = NoEdit
  /\ PipelineIdle /\ store = [p \in Posts |-> None]
  /\ RenderIdle /\ AlbumIdle /\ WizardIdle /\ ParserIdle /\ RowsIdle /\ ResolverIdle
  /\ ServiceIdle

EditIn(st) == edit_fsm.state = Some(st)

Handled(name, text, lines, button_id, result) ==
  [seq |-> edit_handled.seq + 1, name |-> name, text |-> text, lines |-> lines,
   button_id |-> button_id, result |-> result]

\* /edit <id>: only a published post is accepted
cmd_edit_post ==
  /\ IsSome(edit_post)
  /\ Get(edit_post).status = PUBLISHED
  /\ edit_fsm' = [edit_fsm EXCEPT !.state = Some("selecting_action")]
  /\ UNCHANGED <<edit_post, edit_message, edit_handled>>
  /\ EditFrame

start_edit_text ==
  /\ EditIn("selecting_action")
  /\ edit_fsm' = [edit_fsm EXCEPT !.state = Some("editing_text")]
  /\ UNCHANGED <<edit_post, edit_message, edit_handled>>
  /\ EditFrame

start_edit_buttons ==
  /\ EditIn("selecting_action")
  /\ IsSome(edit_post)
  /\ edit_fsm' = [edit_fsm EXCEPT !.state = Some("editing_buttons")]
  /\ UNCHANGED <<edit_post, edit_message, edit_handled>>
  /\ EditFrame

start_add_button ==
  /\ EditIn("editing_buttons")
  /\ edit_fsm' = [edit_fsm EXCEPT !.state = Some("adding_button")]
  /\ UNCHANGED <<edit_post, edit_message, edit_handled>>
  /\ EditFrame

start_edit_button(button_id) ==
  /\ EditIn("editing_buttons")
  /\ IsSome(edit_post)
  /\ \E b \in Get(edit_post).buttons : b.id = button_id
  /\ edit_fsm' = [state |-> Some("editing_button"), edit_button_id |-> Some(button_id)]
  /\ UNCHANGED <<edit_post, edit_message, edit_handled>>
  /\ EditFrame

\* DraftPostRepository.update(post_id, **kwargs): the statement raises for a
\* keyword that is not a column of DraftPost
UpdateRaises(kwargs) == ~(kwargs \subseteq DraftPostColumns)

\* mutant: the store is written and the state set before the channel call
handle_new_text_updates_first(input, ok) ==
  /\ EditIn("editing_text")
  /\ edit_handled.seq < MaxEdits
  /\ IsSome(edit_post) /\ IsSome(Get(edit_post).published_message_id)
  /\ edit_post' = Some([Get(edit_post) EXCEPT !.text = input.text])
  /\ edit_fsm' = [edit_fsm EXCEPT !.state = Some("selecting_action")]
  /\ edit_message' =
       IF ok THEN Some([text |-> input.text,
                        entities |-> list_to_entities(entities_to_list(input.entities)),
                        keyboard |-> InlineKeyboardMarkup(
                                       OrderedButtons(Get(edit_post).buttons))])
       ELSE edit_message
  /\ edit_handled' = Handled("handle_new_text", Some(input), << >>, 0,
                             IF ok THEN "done" ELSE "edit_failed")
  /\ EditFrame

\* a text message in editing_text: the channel message is edited (caption or
\* text, with the new entities and the keyboard of the stored buttons), then
\* the row is updated and the state set; any exception ends the handler with
\* an answer
handle_new_text(input, ok) ==
  /\ EditIn("editing_text")
  /\ edit_handled.seq < MaxEdits
  /\ LET new_entities == entities_to_list(input.entities)
         edited == Some([text |-> input.text,
                         entities |-> list_to_entities(new_entities),
                         keyboard |-> InlineKeyboardMarkup(
                                        OrderedButtons(Get(edit_post).buttons))])
         result == IF edit_post = None \/ Get(edit_post).published_message_id = None
                   THEN "not_found"
                   ELSE IF ~ok THEN "edit_failed"
                   ELSE IF UpdateRaises({"text", "text_entities"}) THEN "update_failed"
                   ELSE "done"
     IN /\ edit_message' = IF result \in {"update_failed", "done"} THEN edited
                           ELSE edit_message
        /\ edit_post' = IF result = "done"
                        THEN Some([Get(edit_post) EXCEPT !.text = input.text])
                        ELSE edit_post
        /\ edit_fsm' = CASE result = "not_found" -> [state |-> None, edit_button_id |-> None]
                         [] result = "done" ->
                              [edit_fsm EXCEPT !.state = Some("selecting_action")]
                         [] OTHER -> edit_fsm
        /\ edit_handled' = Handled("handle_new_text", Some(input), << >>, 0, result)
  /\ EditFrame

\* _update_channel_buttons on the post the session returns: False without a
\* published post; reading post.text_entities raises inside the try when
\* DraftPost has no such attribute, and so does a failed channel call;
\* otherwise the message gets the stored text and the new keyboard
update_channel_buttons(post, ok) ==
  IF post = None \/ Get(post).published_message_id = None
  THEN [returned |-> FALSE, message |-> edit_message]
  ELSE IF "text_entities" \notin DraftPostColumns \/ ~ok
  THEN [returned |-> FALSE, message |-> edit_message]
  ELSE [returned |-> TRUE,
        message |-> Some([text |-> Get(post).text,
                          entities |-> list_to_entities(Get(post).text_entities),
                          keyboard |-> InlineKeyboardMarkup(
                                         OrderedButtons(Get(post).buttons))])]

\* DraftButtonRepository.add_button for each parsed button, on rows
\* max_row + 1 + i
add_buttons(post, new_buttons) ==
  LET rows == {b.row : b \in post.buttons} \cup {-1}
      max_row == CHOOSE r \in rows : \A o \in rows : o <= r
  IN [post EXCEPT
        !.buttons = @ \cup {[id |-> post.next_id + i - 1, text |-> new_buttons[i][1],
                             url |-> new_buttons[i][2], row |-> max_row + i] :
                              i \in DOMAIN new_buttons},
        !.next_id = @ + Len(new_buttons)]

\* DraftButtonRepository.update_button(button_id, **kwargs)
update_button(post, button_id, changes) ==
  [post EXCEPT !.buttons =
     {[k \in DOMAIN b |-> IF b.id = button_id /\ k \in DOMAIN changes
                          THEN changes[k] ELSE b[k]] : b \in @}]

\* a text message in adding_button. The channel update works on the DraftPost
\* the session already holds, whose buttons were loaded before the new rows
\* were added; its result is not looked at.
handle_add_button(lines, ok) ==
  /\ EditIn("adding_button")
  /\ edit_handled.seq < MaxEdits
  /\ IsSome(edit_post) => Get(edit_post).next_id + Len(lines) <= MaxButtonIds + 1
  /\ LET new_buttons == parse_button_text(lines)
         result == IF new_buttons = << >> THEN "rejected"
                   ELSE IF edit_post = None THEN "not_found"
                   ELSE "done"
     IN /\ edit_post' = IF result = "done"
                        THEN Some(add_buttons(Get(edit_post), new_buttons))
                        ELSE edit_post
        /\ edit_message' = IF result = "done"
                           THEN update_channel_buttons(edit_post, ok).message
                           ELSE edit_message
        /\ edit_fsm' = CASE result = "not_found" -> [state |-> None, edit_button_id |-> None]
                         [] result = "done" ->
                              [edit_fsm EXCEPT !.state = Some("editing_buttons")]
                         [] OTHER -> edit_fsm
        /\ edit_handled' = Handled("handle_add_button", None, lines, 0, result)
  /\ EditFrame

\* text.startswith("https://")
starts_with_scheme(line) == line # << >> /\ line[1] = "https://a.example"

\* a text message in editing_button: "text - url" changes both, a bare URL
\* changes the URL; the result of the channel update is not looked at
handle_edit_button(lines, ok) ==
  /\ EditIn("editing_button")
  /\ edit_handled.seq < MaxEdits
  /\ IsSome(edit_post)
  /\ Len(lines) = 1
  /\ LET button_id == Get(edit_fsm.edit_button_id)
         parsed == parse_button_text(lines)
         result == IF parsed = << >> /\ ~starts_with_scheme(lines[1]) THEN "rejected"
                   ELSE "done"
         changes == IF parsed # << >>
                        THEN [url |-> parsed[1][2], text |-> parsed[1][1]]
                        ELSE [url |-> lines[1]]
         after == Some(update_button(Get(edit_post), button_id, changes))
     IN /\ edit_post' = IF result = "done" THEN after ELSE edit_post
        /\ edit_message' = IF result = "done"
                           THEN update_channel_buttons(after, ok).message
                           ELSE edit_message
        /\ edit_fsm' = IF result = "done"
                       THEN [edit_fsm EXCEPT !.state = Some("editing_buttons")]
                       ELSE edit_fsm
        /\ edit_handled' = Handled("handle_edit_button", None, lines, button_id, result)
  /\ EditFrame

\* the delete callback of the buttons menu; the result of the channel update
\* is not looked at
delete_button(button_id, ok) ==
  /\ EditIn("editing_buttons")
  /\ edit_handled.seq < MaxEdits
  /\ IsSome(edit_post)
  /\ LET deleted == \E b \in Get(edit_post).buttons : b.id = button_id
         after == Some([Get(edit_post) EXCEPT
                          !.buttons = {b \in @ : b.id # button_id}])
     IN /\ edit_post' = after
        /\ edit_message' = IF deleted THEN update_channel_buttons(after, ok).message
                           ELSE edit_message
        /\ edit_handled' = Handled("delete_button", None, << >>, button_id,
                                   IF deleted THEN "done" ELSE "missing")
  /\ UNCHANGED edit_fsm
  /\ EditFrame

EditNext ==
  \/ cmd_edit_post
  \/ start_edit_text
  \/ start_edit_buttons
  \/ start_add_button
  \/ \E button_id \in ButtonIds : start_edit_button(button_id)
  \/ \E input \in EditTextInputs, ok \in BOOLEAN : handle_new_text(input, ok)
  \/ \E lines \in EditButtonTexts, ok \in BOOLEAN : handle_add_button(lines, ok)
  \/ \E lines \in EditButtonTexts, ok \in BOOLEAN : handle_edit_button(lines, ok)
  \/ \E button_id \in ButtonIds, ok \in BOOLEAN : delete_button(button_id, ok)

EditSpec == EditInit /\ [][EditNext]_vars

\* the content of the stored post: its text and its buttons in keyboard
\* order
StoredContent(post) ==
  [text |-> Get(post).text,
   buttons |-> [i \in 1..Cardinality(Get(post).buttons) |->
                  [text |-> OrderedButtons(Get(post).buttons)[i].text,
                   url |-> OrderedButtons(Get(post).buttons)[i].url]]]

\* the edit that was handled last reached the store or the channel
Applied == edit_handled.result \in {"done", "update_failed"}

\* the step is an edit by handler name
EditStep(name) ==
  /\ edit_handled'.seq = edit_handled.seq + 1
  /\ edit_handled'.name = name

\* C35: applying the same text edit or the same button edit to a published
\* post a second time, right after the first, leaves the stored post (text,
\* buttons) and the channel message as the first application left them.
C35_SameEditTwiceIsSameAsOnce ==
  [][ \A name \in {"handle_new_text", "handle_add_button", "handle_edit_button"} :
        (/\ EditStep(name)
         /\ edit_handled.name = name
         /\ edit_handled'.text = edit_handled.text
         /\ edit_handled'.lines = edit_handled.lines
         /\ edit_handled'.button_id = edit_handled.button_id
         /\ Applied /\ edit_handled'.result = edit_handled.result) =>
            /\ StoredContent(edit_post') = StoredContent(edit_post)
            /\ edit_message' = edit_message ]_vars

\* C39: after a button add, edit or delete of the edit flow has changed the
\* stored buttons, the keyboard of the channel message is the keyboard built
\* from the stored buttons.
C39_ChannelKeyboardMatchesStore ==
  (/\ edit_handled.name \in {"handle_add_button", "handle_edit_button", "delete_button"}
   /\ edit_handled.result = "done") =>
      Get(edit_message).keyboard =
        InlineKeyboardMarkup(OrderedButtons(Get(edit_post).buttons))

\* C40: when the channel call of a text edit fails, the stored text is the
\* one before the edit, the status is still published and the flow is still
\* in editing_text.
C40_FailedTextEditChangesNothing ==
  [][ (/\ EditStep("handle_new_text")
       /\ edit_handled'.result = "edit_failed") =>
          /\ Get(edit_post').text = Get(edit_post).text
          /\ Get(edit_post').status = PUBLISHED
          /\ edit_fsm'.state = Some("editing_text") ]_vars

\* a text edit with another text than the stored one has failed in the
\* channel call
C40_Witness ==
  /\ edit_handled.name = "handle_new_text"
  /\ edit_handled.result = "edit_failed"
  /\ Get(edit_handled.text).text # Get(edit_post).text

====
